---- MODULE Spec2Model ----
(***************************************************************************)
(* Model of the stock/label service of src/app.py: the in-memory cache of  *)
(* the remote sheet (_cache, _leggi_db_cached, invalidate_cache) and the   *)
(* request handlers that reconcile stock rows keyed by (product, lot).     *)
(*                                                                         *)
(* Text values (product names, lots, category) are sequences of one-       *)
(* character strings, so that strip/upper/lower/startswith are computed    *)
(* as Python computes them.  Dates are records [f, d]: f is the textual    *)
(* format ("iso" = YYYY-MM-DD, "dmy" = DD/MM/YYYY, "nd" = anything else)   *)
(* and d the day number.                                                   *)
(***************************************************************************)
EXTENDS Integers, Sequences, FiniteSets, TLC

(* ------------------------------ bounds -------------------------------- *)
\* requests the sequential specification lets the client issue
MaxReq == 2
\* last clock value (seconds) of the cache specification
MaxNow == 31
\* day number of "today" (datetime.now().date())
Today == 18

(* ------------------------- program constants -------------------------- *)
CACHE_TTL_SECONDS == 30
MAX_QTA == 500

None == "None"
Threads == {1, 2}

(* ------------------------------- text --------------------------------- *)
upper(c) ==
  CASE c = "a" -> "A" [] c = "b" -> "B" [] c = "l" -> "L" [] c = "y" -> "Y"
    [] c = "o" -> "O" [] c = "p" -> "P" [] c = "s" -> "S" [] c = "u" -> "U"
    [] c = "i" -> "I" [] c = "n" -> "N" [] c = "t" -> "T" [] c = "e" -> "E"
    [] c = "r" -> "R" [] c = "x" -> "X"
    [] OTHER -> c

lower(c) ==
  CASE c = "A" -> "a" [] c = "B" -> "b" [] c = "L" -> "l" [] c = "Y" -> "y"
    [] c = "O" -> "o" [] c = "P" -> "p" [] c = "S" -> "s" [] c = "U" -> "u"
    [] c = "I" -> "i" [] c = "N" -> "n" [] c = "T" -> "t" [] c = "E" -> "e"
    [] c = "R" -> "r" [] c = "X" -> "x"
    [] OTHER -> c

str_upper(s) == [i \in 1..Len(s) |-> upper(s[i])]
str_lower(s) == [i \in 1..Len(s) |-> lower(s[i])]

RECURSIVE lstrip(_)
lstrip(s) == IF s # <<>> /\ Head(s) = " " THEN lstrip(Tail(s)) ELSE s

RECURSIVE rstrip(_)
rstrip(s) ==
  IF s # <<>> /\ s[Len(s)] = " " THEN rstrip(SubSeq(s, 1, Len(s) - 1)) ELSE s

strip(s) == rstrip(lstrip(s))

startswith(s, p) == Len(s) >= Len(p) /\ SubSeq(s, 1, Len(p)) = p

contains(s, p) ==
  \E i \in 0..(Len(s) - Len(p)) : SubSeq(s, i + 1, i + Len(p)) = p

S_intern == <<"i", "n", "t", "e", "r", "n">>
S_interno == <<"i", "n", "t", "e", "r", "n", "o">>
S_esterno == <<"e", "s", "t", "e", "r", "n", "o">>

\* src/app.py:34
canon_categoria(cat_raw) ==
  IF contains(str_lower(strip(cat_raw)), S_intern) THEN S_interno ELSE S_esterno

\* normalizza_lotto_esterno that prefixes "L" without looking at the first letter
normalizza_lotto_esterno_sempre_L(lotto) ==
  IF lotto = <<>> \/ strip(lotto) = <<>>
    THEN lotto
    ELSE <<"L">> \o str_upper(strip(lotto))

\* src/app.py:132
normalizza_lotto_esterno(lotto) ==
  IF lotto = <<>> \/ strip(lotto) = <<>>
    THEN lotto
    ELSE LET l == str_upper(strip(lotto))
         IN IF startswith(l, <<"L">>) THEN l ELSE <<"L">> \o l

(* ------------------------------- dates -------------------------------- *)
Date(f, d) == [f |-> f, d |-> d]
DateND == Date("nd", 0)

\* src/app.py:38: [ok |-> TRUE, d |-> day], or ok = FALSE for Python's None
parse_date_any(s) ==
  IF s.f \in {"iso", "dmy"} THEN [ok |-> TRUE, d |-> s.d] ELSE [ok |-> FALSE, d |-> 0]

digit(n) ==
  CASE n = 0 -> "0" [] n = 1 -> "1" [] n = 2 -> "2" [] n = 3 -> "3"
    [] n = 4 -> "4" [] n = 5 -> "5" [] n = 6 -> "6" [] n = 7 -> "7"
    [] n = 8 -> "8" [] OTHER -> "9"

two_digits(n) == <<digit((n \div 10) % 10), digit(n % 10)>>

\* strftime('%d%d%m%y') of today: the day twice, then month 02 and year 26
strftime_ddmy(day) == two_digits(day) \o two_digits(day) \o <<"0", "2", "2", "6">>

\* src/app.py:312: f"L{datetime.now().strftime('%d%d%m%y')}{sigla}"
lotto_interno(sigla) == <<"L">> \o strftime_ddmy(Today) \o sigla

(* ------------------------------ catalog ------------------------------- *)
\* A cell of the sheet: a number, the empty string, or text that is no number.
Num(n) == [k |-> "num", v |-> n]
Txt == [k |-> "txt", v |-> 0]
Blank == [k |-> "blank", v |-> 0]

\* One ANAGRAFICA record (get_all_records): name, category text, short code
\* and two of the alternate shelf-life fields.
Prodotto(nome, cat, sigla, g1, g2) ==
  [PRODOTTO |-> nome, CATEGORIA |-> cat, SIGLA |-> sigla,
   GIORNI_SCADENZA |-> g1, GIORNI_CONSERVAZIONE |-> g2]

P_Yo == Prodotto(<<"Y", "o">>, S_esterno, <<"Y", "G">>, Num(10), Blank)
P_Pa == Prodotto(<<"P", "a">>, S_interno, <<"P", "A">>, Txt, Num(3))
P_Su == Prodotto(<<"S", "u">>, <<"I", "n", "t", "e", "r", "n", "i">>, <<"S", "U">>,
                 Blank, Blank)

FullCatalog == <<P_Yo, P_Pa, P_Su>>

\* src/app.py:118: the first shelf-life field that is non-empty and parses
\* gives today + days as DD/MM/YYYY; DateND stands for Python's None.
calcola_scadenza_da_anagrafica(p_info) ==
  IF p_info.GIORNI_SCADENZA.k = "num"
    THEN Date("dmy", Today + p_info.GIORNI_SCADENZA.v)
  ELSE IF p_info.GIORNI_CONSERVAZIONE.k = "num"
    THEN Date("dmy", Today + p_info.GIORNI_CONSERVAZIONE.v)
  ELSE DateND

\* src/app.py:306: next((p for p in anag if PRODOTTO.strip().lower() ==
\* nome.lower()), None): the index of the first match, 0 for None
trova_prodotto(anag, nome) ==
  LET hit == {i \in 1..Len(anag) :
                str_lower(strip(anag[i].PRODOTTO)) = str_lower(nome)}
  IN IF hit = {} THEN 0 ELSE CHOOSE i \in hit : \A j \in hit : i <= j

\* src/app.py:391,402: by_name = {name: p for p in anag}; by_name.get(nome.lower()):
\* a dict keeps the last record of a name; the index, 0 for None
by_name(anag, nome) ==
  LET hit == {i \in 1..Len(anag) :
                str_lower(strip(anag[i].PRODOTTO)) = str_lower(nome)}
  IN IF hit = {} THEN 0 ELSE CHOOSE i \in hit : \A j \in hit : i >= j

(* --------------------------- the remote sheet -------------------------- *)
\* One row of GIACENZE as get_all_values returns it: columns 0 (product),
\* 1 (quantity cell), 2 (packaging), 4 (lot), 5 (expiry), 6 (start date).
Riga(nome, qta, pack, lotto, scad, inizio) ==
  [Prodotto |-> nome, Qta |-> qta, Pack |-> pack, Lotto |-> lotto,
   Scadenza |-> scad, Data_Inizio |-> inizio]

Header == Riga(<<"P", "R", "O", "D">>, Txt, "Pack", <<"L", "O", "T">>, DateND, DateND)
RigaVuota == Riga(<<>>, Blank, "", <<>>, DateND, DateND)

\* int_or_zero giving 1 when the cell does not parse
int_or_zero_uno(cell) == IF cell.k = "num" THEN cell.v ELSE 1

\* src/app.py:81-84: int(r[1]), 0 when it does not parse
int_or_zero(cell) == IF cell.k = "num" THEN cell.v ELSE 0

\* src/app.py:77-94: the cleaned stock rows of the raw values, row ids from 2
RECURSIVE giacenze_pulite_da(_, _)
giacenze_pulite_da(righe_grezze, i) ==
  IF i > Len(righe_grezze) THEN <<>>
  ELSE LET r == righe_grezze[i]
           qta == int_or_zero(r.Qta)
       IN (IF strip(r.Prodotto) # <<>> /\ qta > 0
             THEN <<[riga_id |-> i, Prodotto |-> strip(r.Prodotto),
                     Qta |-> qta, Lotto |-> r.Lotto,
                     Scadenza |-> r.Scadenza, Data_Inizio |-> r.Data_Inizio]>>
             ELSE <<>>) \o giacenze_pulite_da(righe_grezze, i + 1)

giacenze_pulite(righe_grezze) == giacenze_pulite_da(righe_grezze, 2)

(* ------------------------------- state -------------------------------- *)
VARIABLES
  anagrafica,  \* the ANAGRAFICA worksheet: sequence of product records
  ws0,         \* the GIACENZE worksheet as it was when the service started
  ws,          \* the GIACENZE worksheet: sequence of rows, the header first
  cache,       \* _cache: anagrafica, giacenze, timestamp, sheet_ref
  now,         \* datetime.now(), in seconds
  th,          \* per request thread: position and local variables
  hist,        \* completed requests that resolve a lot or write, in order
  nreq,        \* requests that have arrived so far
  nfid,        \* fetches that succeeded so far (numbers each snapshot)
  wver,        \* writes applied to the sheet so far
  invVer,      \* highest write count whose request has run invalidate_cache
  calc         \* a helper function under test: its input x, its results y

vars == <<calc, anagrafica, ws0, nreq, ws, cache, now, th, hist, nfid, wver, invVer>>

\* What a read hands back: the three values of the code, plus the number of
\* the fetch each came from and the sheet's write count at that fetch.
Snap(a, g, s, ta, tg, ts, v) ==
  [anagrafica |-> a, giacenze |-> g, sheet_ref |-> s,
   tagA |-> ta, tagG |-> tg, tagS |-> ts, ver |-> v]

EmptySnap == Snap(<<>>, <<>>, None, 0, 0, 0, 0)

\* src/app.py:17-22: timestamp <<>> is None, <<t>> is set
EmptyCache == [snap |-> EmptySnap, timestamp |-> <<>>]

Req(op, nome, lotto, qta, items, riga_id, force) ==
  [op |-> op, nome |-> nome, lotto |-> lotto, qta |-> qta, items |-> items,
   riga_id |-> riga_id, force |-> force]

NoPlan == [kind |-> "none", riga_id |-> 0, val |-> 0, row |-> RigaVuota,
           scad |-> DateND]

IdleTh ==
  [pc |-> "idle", req |-> Req("none", <<>>, <<>>, 0, <<>>, 0, FALSE),
   ret |-> EmptySnap, tmp |-> EmptySnap, fast |-> FALSE, nfetch |-> 0,
   failed |-> FALSE,
   chk |-> [timestamp |-> <<>>, now |-> 0, snap |-> EmptySnap, inv |-> 0],
   exc |-> EmptySnap,
   resp |-> "none", cat |-> <<>>, lotto |-> <<>>, i |-> 0, plan |-> NoPlan,
   nwr |-> 0, nok |-> 0, lastw |-> 0, inval |-> FALSE, stale |-> FALSE,
   labels |-> <<>>, righe |-> <<>>, da_rimuovere |-> 0, current |-> 0,
   log |-> <<>>]

Set(t, rec) == th' = [th EXCEPT ![t] = rec]

\* no helper function is under test
NoCalc == [x |-> <<>>, y |-> <<>>]

(* ------------------------------- cache -------------------------------- *)
\* is_cache_valid with the boundary second still counted as valid
is_cache_valid_le(c, n) ==
  IF c.timestamp = <<>> THEN FALSE
  ELSE n - c.timestamp[1] <= CACHE_TTL_SECONDS

\* src/app.py:48-53
is_cache_valid(c, n) ==
  IF c.timestamp = <<>> THEN FALSE
  ELSE n - c.timestamp[1] < CACHE_TTL_SECONDS

\* src/app.py:56-59, the body of invalidate_cache under the lock
invalidated(c) == [c EXCEPT !.timestamp = <<>>]

\* src/app.py:64-66: under the lock, return the cache when it is valid and no
\* refresh is forced; otherwise go on to the fetch
leggi_db_cached_check(t) ==
  /\ th[t].pc = "check"
  /\ LET me == [th[t] EXCEPT !.chk = [timestamp |-> cache.timestamp, now |-> now,
                                      snap |-> cache.snap, inv |-> invVer]]
     IN IF ~th[t].req.force /\ is_cache_valid(cache, now)
          THEN Set(t, [me EXCEPT !.ret = cache.snap, !.fast = TRUE, !.pc = "resolve"])
          ELSE Set(t, [me EXCEPT !.pc = "fetch"])
  /\ UNCHANGED <<calc, anagrafica, ws0, nreq, ws, cache, now, hist, nfid, wver, invVer>>

\* src/app.py:70-94: the remote reads succeed; the snapshot is held in locals
leggi_db_cached_fetch(t) ==
  /\ th[t].pc = "fetch"
  /\ nfid' = nfid + 1
  /\ Set(t, [th[t] EXCEPT !.tmp = Snap(anagrafica, giacenze_pulite(ws), "sh",
                                       nfid + 1, nfid + 1, nfid + 1, wver),
                          !.nfetch = @ + 1, !.pc = "store"])
  /\ UNCHANGED <<calc, anagrafica, ws0, nreq, ws, cache, now, hist, wver, invVer>>

\* leggi_db_cached_store replacing the catalog and the timestamp only
leggi_db_cached_store_torn(t) ==
  /\ th[t].pc = "store"
  /\ cache' = [snap |-> [cache.snap EXCEPT !.anagrafica = th[t].tmp.anagrafica,
                                           !.tagA = th[t].tmp.tagA],
               timestamp |-> <<now>>]
  /\ Set(t, [th[t] EXCEPT !.ret = th[t].tmp, !.pc = "resolve"])
  /\ UNCHANGED <<calc, anagrafica, ws0, nreq, ws, now, hist, nfid, wver, invVer>>

\* src/app.py:97-103: under the lock, replace the four cache fields; return
leggi_db_cached_store(t) ==
  /\ th[t].pc = "store"
  /\ cache' = [snap |-> th[t].tmp, timestamp |-> <<now>>]
  /\ Set(t, [th[t] EXCEPT !.ret = th[t].tmp, !.pc = "resolve"])
  /\ UNCHANGED <<calc, anagrafica, ws0, nreq, ws, now, hist, nfid, wver, invVer>>

\* src/app.py:69-75,104: a remote read raises
leggi_db_cached_raise(t) ==
  /\ th[t].pc = "fetch"
  /\ Set(t, [th[t] EXCEPT !.nfetch = @ + 1, !.failed = TRUE, !.pc = "except"])
  /\ UNCHANGED <<calc, anagrafica, ws0, nreq, ws, cache, now, hist, nfid, wver, invVer>>

\* leggi_db_cached_except that also stamps the cache as just refreshed
leggi_db_cached_except_stamp(t) ==
  /\ th[t].pc = "except"
  /\ cache' = [cache EXCEPT !.timestamp = <<now>>]
  /\ Set(t, [th[t] EXCEPT !.exc = cache.snap,
                          !.stale = (cache.snap.anagrafica # <<>>),
                          !.ret = IF cache.snap.anagrafica # <<>>
                                    THEN cache.snap ELSE EmptySnap,
                          !.pc = "resolve"])
  /\ UNCHANGED <<calc, anagrafica, ws0, nreq, ws, now, hist, nfid, wver, invVer>>

\* src/app.py:107-110: under the lock, the old cache if its catalog is not
\* empty, else empty lists and no handle
leggi_db_cached_except(t) ==
  /\ th[t].pc = "except"
  /\ Set(t, [th[t] EXCEPT !.exc = cache.snap,
                          !.stale = (cache.snap.anagrafica # <<>>),
                          !.ret = IF cache.snap.anagrafica # <<>>
                                    THEN cache.snap ELSE EmptySnap,
                          !.pc = "resolve"])
  /\ UNCHANGED <<calc, anagrafica, ws0, nreq, ws, cache, now, hist, nfid, wver, invVer>>

\* src/app.py:56-59 as the last step of a handler that wrote
invalidate_cache(t) ==
  /\ th[t].pc = "inval"
  /\ cache' = invalidated(cache)
  /\ invVer' = IF th[t].lastw > invVer THEN th[t].lastw ELSE invVer
  /\ Set(t, [th[t] EXCEPT !.inval = TRUE, !.pc = "respond"])
  /\ UNCHANGED <<calc, anagrafica, ws0, nreq, ws, now, hist, nfid, wver>>

Letture == {"leggi_db", "dettaglio_prodotto", "refresh_cache"}

\* the handler returns its response
Finish(t, me, resp) ==
  /\ Set(t, [me EXCEPT !.resp = resp, !.pc = "done"])
  /\ hist' = IF me.req.op \in Letture THEN hist
             ELSE Append(hist, [req |-> me.req, resp |-> resp,
                                lotto |-> me.lotto, nwr |-> me.nwr,
                                nok |-> me.nok, inval |-> me.inval])

\* src/app.py:348-352, 496-497: after invalidate_cache the handler answers
respond(t) ==
  /\ th[t].pc = "respond"
  /\ Finish(t, th[t], "success")
  /\ UNCHANGED <<calc, anagrafica, ws0, nreq, ws, cache, now, nfid, wver, invVer>>

\* the clock advances to a later instant
Tick(n) ==
  /\ n > now
  /\ now' = n
  /\ UNCHANGED <<calc, anagrafica, ws0, nreq, ws, cache, th, hist, nfid, wver, invVer>>

(* ------------------------ sheet write primitives ----------------------- *)
RECURSIVE righe_vuote(_)
righe_vuote(k) == IF k <= 0 THEN <<>> ELSE <<RigaVuota>> \o righe_vuote(k - 1)

\* ws.update_cell(riga_id, 2, val): a row below the last one comes into being
update_cell_qta(w, riga_id, val) ==
  LET w2 == IF riga_id > Len(w) THEN w \o righe_vuote(riga_id - Len(w)) ELSE w
  IN [w2 EXCEPT ![riga_id].Qta = Num(val)]

\* ws.update_cell(riga_id, 6, scad)
update_cell_scad(w, riga_id, scad) ==
  LET w2 == IF riga_id > Len(w) THEN w \o righe_vuote(riga_id - Len(w)) ELSE w
  IN [w2 EXCEPT ![riga_id].Scadenza = scad]

\* ws.append_row(values)
append_row(w, row) == Append(w, row)

\* ws.delete_rows(i): the rows below move up by one
delete_rows(w, i) ==
  IF i > Len(w) THEN w
  ELSE SubSeq(w, 1, i - 1) \o SubSeq(w, i + 1, Len(w))

(* -------------------------- lot and key logic -------------------------- *)
\* data_key that reads ISO start dates only
data_key_iso(g) == IF g.Data_Inizio.f = "iso" THEN g.Data_Inizio.d ELSE 0

\* src/app.py:319: the date of a candidate's sort key: the parsed start date,
\* or datetime.min (day 0) when it does not parse
data_key(g) ==
  LET d == parse_date_any(g.Data_Inizio) IN IF d.ok THEN d.d ELSE 0

\* src/app.py:319: the sort key (date, riga_id) of a is greater than that of b
chiave_maggiore(a, b) ==
  \/ data_key(a) > data_key(b)
  \/ data_key(a) = data_key(b) /\ a.riga_id > b.riga_id

\* list.sort(key=..., reverse=True): descending, equal keys keep their order
RECURSIVE inserisci_fifo(_, _)
inserisci_fifo(sorted, g) ==
  IF sorted = <<>> THEN <<g>>
  ELSE IF chiave_maggiore(g, Head(sorted))
    THEN <<g>> \o sorted
    ELSE <<Head(sorted)>> \o inserisci_fifo(Tail(sorted), g)

RECURSIVE ordina_fifo_da(_, _)
ordina_fifo_da(righe, k) ==
  IF k = 0 THEN <<>> ELSE inserisci_fifo(ordina_fifo_da(righe, k - 1), righe[k])

\* src/app.py:318-319: the stock rows of the product, latest start first
candidati(giac, nome) ==
  LET c == SelectSeq(giac, LAMBDA g : str_lower(strip(g.Prodotto)) = str_lower(nome))
  IN ordina_fifo_da(c, Len(c))

\* src/app.py:320-321: the index in giac of candidati[0], 0 if there is none
candidato(giac, nome) ==
  LET c == candidati(giac, nome)
  IN IF c = <<>> THEN 0
     ELSE CHOOSE i \in 1..Len(giac) : giac[i].riga_id = c[1].riga_id

\* src/app.py:338: the key of a stock row
chiave(g) ==
  <<str_lower(strip(g.Prodotto)), normalizza_lotto_esterno(strip(g.Lotto))>>

\* src/app.py:336-342: mappa[key] as the index in giac of the last row that
\* has the key (a later row overwrites an earlier one), 0 if key not in mappa
mappa(giac, key) ==
  LET hit == {i \in 1..Len(giac) : chiave(giac[i]) = key}
  IN IF hit = {} THEN 0 ELSE CHOOSE i \in hit : \A j \in hit : i >= j

\* qta = max(lo, min(qta, 500))
clamp(lo, q) == IF q > MAX_QTA THEN MAX_QTA ELSE IF q < lo THEN lo ELSE q

\* scad_sheet that leaves the expiry at today
scad_sheet_oggi(p_scad) == Date("iso", Today)

\* src/app.py:326-334, 475-482: the expiry written to the sheet, ISO text:
\* today + shelf life when the catalog gives one, else today
scad_sheet(p_scad) ==
  IF p_scad.f = "dmy" THEN Date("iso", p_scad.d) ELSE Date("iso", Today)

\* src/app.py:340-347: the write a single-item handler decides on
piano(giac, nome, lotto, qta, scad) ==
  LET m == mappa(giac, <<str_lower(strip(nome)), lotto>>)
  IN IF m # 0
       THEN [NoPlan EXCEPT !.kind = "update", !.riga_id = giac[m].riga_id,
                           !.val = giac[m].Qta + qta, !.scad = scad]
       ELSE [NoPlan EXCEPT !.kind = "append",
                           !.row = Riga(nome, Num(qta), "busta", lotto, scad,
                                        Date("iso", Today))]

\* One write call issued to the sheet, as the thread's log keeps it: the
\* method, its row and column (0 where it has none), the value written to a
\* quantity cell, the batch or loop item it serves (0 in a single-item
\* handler), whether it returned, and the sheet's length when it was issued.
Chiamata(call, riga, col, val, item, ok, w) ==
  [call |-> call, riga |-> riga, col |-> col, val |-> val, item |-> item,
   ok |-> ok, len |-> Len(w)]

\* src/app.py:341-347, 436, 442: the call that carries out the planned write
chiamata_piano(plan, item, ok, w) ==
  IF plan.kind = "update"
    THEN Chiamata("update_cell", plan.riga_id, 2, plan.val, item, ok, w)
    ELSE Chiamata("append_row", 0, 0, int_or_zero(plan.row.Qta), item, ok, w)

\* the sheet after the planned quantity write
applica(w, plan) ==
  IF plan.kind = "update" THEN update_cell_qta(w, plan.riga_id, plan.val)
  ELSE append_row(w, plan.row)

(* ------------------------------ requests ------------------------------ *)
Attive == {t \in Threads : th[t].pc \notin {"idle", "done"}}

\* a request arrives and is served by the first free thread of the pool
Arrivo(t, max) ==
  /\ th[t].pc \in {"idle", "done"}
  /\ \A u \in Threads : u < t => th[u].pc \notin {"idle", "done"}
  /\ nreq < max
  /\ nreq' = nreq + 1

Etichetta(nome, lotto, inizio, scad, qta) ==
  [nome |-> nome, lotto |-> lotto, data_inizio |-> inizio,
   data_scadenza |-> scad, qta |-> qta]

\* src/app.py:292-303: stampa_singolo up to the forced read
stampa_singolo_start(t, dati, max) ==
  /\ Arrivo(t, max)
  /\ LET me == [IdleTh EXCEPT !.req = Req("stampa_singolo", strip(dati.nome),
                                          strip(dati.lotto), clamp(1, dati.qta),
                                          <<>>, 0, TRUE)]
     IN IF me.req.nome = <<>>
          THEN Finish(t, me, "invalid")
          ELSE Set(t, [me EXCEPT !.pc = "check"]) /\ UNCHANGED hist
  /\ UNCHANGED <<calc, anagrafica, ws0, ws, cache, now, nfid, wver, invVer>>

\* src/app.py:309-325: the lot of a single print: [ok, lotto]
lotto_stampa(p_info, giac, nome, lotto_raw) ==
  IF canon_categoria(p_info.CATEGORIA) = S_interno
    THEN [ok |-> TRUE, lotto |-> lotto_interno(p_info.SIGLA)]
  ELSE IF lotto_raw # <<>>
    THEN [ok |-> TRUE, lotto |-> normalizza_lotto_esterno(lotto_raw)]
  ELSE LET c == candidato(giac, nome)
       IN IF c = 0 THEN [ok |-> FALSE, lotto |-> <<>>]
          ELSE LET l == normalizza_lotto_esterno(strip(giac[c].Lotto))
               IN [ok |-> l # <<>>, lotto |-> l]

\* src/app.py:303-340: stampa_singolo from the read to the write decision
stampa_singolo_resolve(t) ==
  /\ th[t].pc = "resolve" /\ th[t].req.op = "stampa_singolo"
  /\ LET me == th[t]
         r == me.ret
         ix == trova_prodotto(r.anagrafica, me.req.nome)
     IN IF r.sheet_ref = None THEN Finish(t, me, "store_unavailable")
        ELSE IF ix = 0 THEN Finish(t, me, "not_found")
        ELSE LET p_info == r.anagrafica[ix]
                 l == lotto_stampa(p_info, r.giacenze, me.req.nome, me.req.lotto)
                 ds == calcola_scadenza_da_anagrafica(p_info)
             IN IF ~l.ok
                  THEN Finish(t, [me EXCEPT !.cat = canon_categoria(p_info.CATEGORIA)],
                              "missing_lot")
                  ELSE /\ Set(t, [me EXCEPT
                            !.cat = canon_categoria(p_info.CATEGORIA),
                            !.lotto = l.lotto,
                            !.plan = piano(r.giacenze, me.req.nome, l.lotto,
                                           me.req.qta, scad_sheet(ds)),
                            !.labels = <<Etichetta(me.req.nome, l.lotto,
                                          Date("dmy", Today), ds, me.req.qta)>>,
                            !.pc = "write"])
                       /\ UNCHANGED hist
  /\ UNCHANGED <<calc, anagrafica, ws0, nreq, ws, cache, now, nfid, wver, invVer>>

\* src/app.py:341-347, 489-495: the one update_cell or append_row succeeds
scrivi(t) ==
  /\ th[t].pc = "write"
  /\ ws' = applica(ws, th[t].plan)
  /\ wver' = wver + 1
  /\ Set(t, [th[t] EXCEPT !.nwr = @ + 1, !.nok = @ + 1, !.lastw = wver + 1,
                          !.log = Append(@, chiamata_piano(th[t].plan, 0, TRUE, ws)),
                          !.pc = "inval"])
  /\ UNCHANGED <<calc, anagrafica, ws0, nreq, cache, now, hist, nfid, invVer>>

\* src/app.py:349-350, 498-499: the write raises; the handler answers 500
scrivi_raise(t) ==
  /\ th[t].pc = "write"
  /\ Finish(t, [th[t] EXCEPT !.nwr = @ + 1,
                             !.log = Append(@, chiamata_piano(th[t].plan, 0, FALSE, ws))],
            "store_error")
  /\ UNCHANGED <<calc, anagrafica, ws0, nreq, ws, cache, now, nfid, wver, invVer>>

\* src/app.py:454-465: aggiungi_prodotto up to the forced read
aggiungi_prodotto_start(t, dati, max) ==
  /\ Arrivo(t, max)
  /\ LET me == [IdleTh EXCEPT !.req = Req("aggiungi_prodotto", strip(dati.nome),
                                          dati.lotto, clamp(0, dati.qta),
                                          <<>>, 0, TRUE)]
     IN IF me.req.nome = <<>> \/ me.req.qta < 1
          THEN Finish(t, me, "invalid")
          ELSE Set(t, [me EXCEPT !.pc = "check"]) /\ UNCHANGED hist
  /\ UNCHANGED <<calc, anagrafica, ws0, ws, cache, now, nfid, wver, invVer>>

\* src/app.py:468-474: the lot of an added stock item
lotto_aggiungi(anag, ix, lotto_in) ==
  LET cat == IF ix # 0 THEN str_lower(strip(anag[ix].CATEGORIA)) ELSE <<>>
  IN IF cat = S_interno THEN lotto_interno(anag[ix].SIGLA)
     ELSE IF lotto_in # <<>> THEN normalizza_lotto_esterno(strip(lotto_in))
     ELSE <<>>

\* src/app.py:465-488: aggiungi_prodotto from the read to the write decision
aggiungi_prodotto_resolve(t) ==
  /\ th[t].pc = "resolve" /\ th[t].req.op = "aggiungi_prodotto"
  /\ LET me == th[t]
         r == me.ret
         ix == trova_prodotto(r.anagrafica, me.req.nome)
     IN IF r.sheet_ref = None THEN Finish(t, me, "store_unavailable")
        ELSE LET l == lotto_aggiungi(r.anagrafica, ix, me.req.lotto)
                 ds == IF ix # 0 THEN calcola_scadenza_da_anagrafica(r.anagrafica[ix])
                       ELSE DateND
             IN /\ Set(t, [me EXCEPT
                     !.cat = IF ix # 0 THEN canon_categoria(r.anagrafica[ix].CATEGORIA)
                             ELSE <<>>,
                     !.lotto = l,
                     !.plan = piano(r.giacenze, me.req.nome, l, me.req.qta,
                                    scad_sheet(ds)),
                     !.pc = "write"])
                /\ UNCHANGED hist
  /\ UNCHANGED <<calc, anagrafica, ws0, nreq, ws, cache, now, nfid, wver, invVer>>

(* ------------------------------ reprint ------------------------------- *)
\* src/app.py:501-509: stampa_ristampa up to the forced read
stampa_ristampa_start(t, dati, max) ==
  /\ Arrivo(t, max)
  /\ LET me == [IdleTh EXCEPT !.req = Req("stampa_ristampa", strip(dati.nome),
                                          strip(dati.lotto), dati.qta, <<>>, 0, TRUE)]
     IN IF me.req.nome = <<>>
          THEN Finish(t, me, "invalid")
          ELSE Set(t, [me EXCEPT !.pc = "check"]) /\ UNCHANGED hist
  /\ UNCHANGED <<calc, anagrafica, ws0, ws, cache, now, nfid, wver, invVer>>

\* src/app.py:515-542: the lot of a reprint: [ok, lotto, c], c the stock row
\* the dates are taken from (0 if none)
lotto_ristampa(p_info, giac, nome, lotto_in) ==
  LET l1 == IF lotto_in # <<>> THEN normalizza_lotto_esterno(lotto_in) ELSE <<>>
      c == IF l1 = <<>> THEN candidato(giac, nome) ELSE 0
      l2 == IF c # 0 THEN normalizza_lotto_esterno(strip(giac[c].Lotto)) ELSE l1
  IN IF l2 # <<>> THEN [ok |-> TRUE, lotto |-> l2, c |-> c]
     ELSE IF canon_categoria(p_info.CATEGORIA) = S_interno
       THEN [ok |-> TRUE, lotto |-> lotto_interno(p_info.SIGLA), c |-> c]
     ELSE [ok |-> FALSE, lotto |-> <<>>, c |-> c]

\* src/app.py:525-535: a stock date shown on the label, if it parses
data_etichetta(s, default) ==
  IF parse_date_any(s).ok THEN Date("dmy", parse_date_any(s).d) ELSE default

\* src/app.py:509-549: stampa_ristampa after the read (it writes nothing)
stampa_ristampa_resolve(t) ==
  /\ th[t].pc = "resolve" /\ th[t].req.op = "stampa_ristampa"
  /\ LET me == th[t]
         r == me.ret
         ix == trova_prodotto(r.anagrafica, me.req.nome)
     IN IF ix = 0 THEN Finish(t, me, "not_found")
        ELSE LET p_info == r.anagrafica[ix]
                 l == lotto_ristampa(p_info, r.giacenze, me.req.nome, me.req.lotto)
                 cat == canon_categoria(p_info.CATEGORIA)
                 di == IF l.c # 0
                         THEN data_etichetta(r.giacenze[l.c].Data_Inizio,
                                             Date("dmy", Today))
                         ELSE Date("dmy", Today)
                 ds == IF l.c # 0
                         THEN data_etichetta(r.giacenze[l.c].Scadenza,
                                             calcola_scadenza_da_anagrafica(p_info))
                         ELSE calcola_scadenza_da_anagrafica(p_info)
             IN IF ~l.ok THEN Finish(t, [me EXCEPT !.cat = cat], "missing_lot")
                ELSE Finish(t, [me EXCEPT !.cat = cat, !.lotto = l.lotto,
                                  !.labels = <<Etichetta(me.req.nome, l.lotto, di, ds,
                                                         me.req.qta)>>],
                            "success")
  /\ UNCHANGED <<calc, anagrafica, ws0, nreq, ws, cache, now, nfid, wver, invVer>>

(* ----------------------------- batch print ----------------------------- *)
\* src/app.py:382-388: stampa_linea_totale up to the forced read
stampa_linea_totale_start(t, items, max) ==
  /\ Arrivo(t, max)
  /\ LET me == [IdleTh EXCEPT !.req = Req("stampa_linea_totale", <<>>, <<>>, 0,
                                          items, 0, TRUE)]
     IN IF items = <<>>
          THEN Finish(t, me, "invalid")
          ELSE Set(t, [me EXCEPT !.pc = "check"]) /\ UNCHANGED hist
  /\ UNCHANGED <<calc, anagrafica, ws0, ws, cache, now, nfid, wver, invVer>>

\* src/app.py:388-397: after the read, before the loop
stampa_linea_totale_resolve(t) ==
  /\ th[t].pc = "resolve" /\ th[t].req.op = "stampa_linea_totale"
  /\ IF th[t].ret.sheet_ref = None
       THEN Finish(t, th[t], "store_unavailable")
       ELSE Set(t, [th[t] EXCEPT !.i = 1, !.pc = "item"]) /\ UNCHANGED hist
  /\ UNCHANGED <<calc, anagrafica, ws0, nreq, ws, cache, now, nfid, wver, invVer>>

\* src/app.py:432-442: the write of one batch item; an update also sets the
\* expiry to today
piano_linea(giac, nome, lotto, qta) ==
  piano(giac, nome, lotto, qta, Date("iso", Today))

\* src/app.py:398-433: one pass of the loop up to the item's write, or the
\* end of the loop
stampa_linea_totale_item(t) ==
  /\ th[t].pc = "item"
  /\ LET me == th[t]
         r == me.ret
     IN IF me.i > Len(me.req.items)
          THEN Set(t, [me EXCEPT !.pc = "inval"]) /\ UNCHANGED hist
          ELSE LET it == me.req.items[me.i]
                   nome == strip(it.nome)
                   ix == by_name(r.anagrafica, nome)
               IN IF nome = <<>> \/ ix = 0
                    THEN Set(t, [me EXCEPT !.i = @ + 1]) /\ UNCHANGED hist
                    ELSE LET l == lotto_stampa(r.anagrafica[ix], r.giacenze, nome,
                                               strip(it.lotto))
                         IN IF ~l.ok
                              THEN Finish(t, [me EXCEPT !.req.nome = nome],
                                          "missing_lot")
                              ELSE /\ Set(t, [me EXCEPT
                                        !.lotto = l.lotto,
                                        !.plan = piano_linea(r.giacenze, nome, l.lotto,
                                                             clamp(1, it.qta)),
                                        !.labels = Append(@,
                                           Etichetta(nome, l.lotto, Date("dmy", Today),
                                                     Date("dmy", Today),
                                                     clamp(1, it.qta))),
                                        !.pc = "bwrite"])
                                   /\ UNCHANGED hist
  /\ UNCHANGED <<calc, anagrafica, ws0, nreq, ws, cache, now, nfid, wver, invVer>>

\* stampa_linea_totale_write that goes on to set the expiry cell after an
\* append as well
stampa_linea_totale_write_sempre2(t) ==
  /\ th[t].pc = "bwrite"
  /\ ws' = applica(ws, th[t].plan)
  /\ wver' = wver + 1
  /\ Set(t, [th[t] EXCEPT !.nwr = @ + 1, !.nok = @ + 1, !.lastw = wver + 1,
                          !.log = Append(@, chiamata_piano(th[t].plan, th[t].i,
                                                           TRUE, ws)),
                          !.plan.riga_id = IF th[t].plan.kind = "update" THEN @
                                           ELSE Len(ws) + 1,
                          !.pc = "bwrite2"])
  /\ UNCHANGED <<calc, anagrafica, ws0, nreq, cache, now, hist, nfid, invVer>>

\* src/app.py:436, 442: the item's quantity update or append succeeds
stampa_linea_totale_write(t) ==
  /\ th[t].pc = "bwrite"
  /\ ws' = applica(ws, th[t].plan)
  /\ wver' = wver + 1
  /\ Set(t, [th[t] EXCEPT !.nwr = @ + 1, !.nok = @ + 1, !.lastw = wver + 1,
                          !.log = Append(@, chiamata_piano(th[t].plan, th[t].i,
                                                           TRUE, ws)),
                          !.i = IF th[t].plan.kind = "update" THEN @ ELSE @ + 1,
                          !.pc = IF th[t].plan.kind = "update" THEN "bwrite2"
                                 ELSE "item"])
  /\ UNCHANGED <<calc, anagrafica, ws0, nreq, cache, now, hist, nfid, invVer>>

\* src/app.py:437: the update of the expiry cell succeeds
stampa_linea_totale_write2(t) ==
  /\ th[t].pc = "bwrite2"
  /\ ws' = update_cell_scad(ws, th[t].plan.riga_id, th[t].plan.scad)
  /\ wver' = wver + 1
  /\ Set(t, [th[t] EXCEPT !.nwr = @ + 1, !.nok = @ + 1, !.lastw = wver + 1,
                          !.log = Append(@, Chiamata("update_cell", th[t].plan.riga_id,
                                                     6, 0, th[t].i, TRUE, ws)),
                          !.i = @ + 1, !.pc = "item"])
  /\ UNCHANGED <<calc, anagrafica, ws0, nreq, cache, now, hist, nfid, invVer>>

\* stampa_linea_totale_raise that answers 500 as the single-item handlers do
stampa_linea_totale_raise_abort(t) ==
  /\ th[t].pc \in {"bwrite", "bwrite2"}
  /\ Finish(t, [th[t] EXCEPT
                  !.nwr = @ + 1,
                  !.log = Append(@, chiamata_piano(th[t].plan, th[t].i, FALSE, ws))],
            "store_error")
  /\ UNCHANGED <<calc, anagrafica, ws0, nreq, ws, cache, now, nfid, wver, invVer>>

\* src/app.py:438-439, 443-444: a write of the item raises; it is printed
\* and the loop goes on
stampa_linea_totale_raise(t) ==
  /\ th[t].pc \in {"bwrite", "bwrite2"}
  /\ Set(t, [th[t] EXCEPT
        !.nwr = @ + 1,
        !.log = Append(@, IF th[t].pc = "bwrite"
                            THEN chiamata_piano(th[t].plan, th[t].i, FALSE, ws)
                            ELSE Chiamata("update_cell", th[t].plan.riga_id, 6, 0,
                                          th[t].i, FALSE, ws)),
        !.i = @ + 1, !.pc = "item"])
  /\ UNCHANGED <<calc, anagrafica, ws0, nreq, ws, cache, now, hist, nfid, wver, invVer>>

(* ------------------------------ removals ------------------------------ *)
\* src/app.py:563-568: the sort key of a row: its ISO start date, or "now"
\* (after today's midnight, before tomorrow's) when it is not ISO text
parse_date_iso_key(g) ==
  IF g.Data_Inizio.f = "iso" THEN 2 * g.Data_Inizio.d ELSE 2 * Today + 1

\* list.sort(key=...): stable, ascending
RECURSIVE inserisci(_, _)
inserisci(sorted, g) ==
  IF sorted = <<>> THEN <<g>>
  ELSE IF parse_date_iso_key(g) < parse_date_iso_key(Head(sorted))
    THEN <<g>> \o sorted
    ELSE <<Head(sorted)>> \o inserisci(Tail(sorted), g)

RECURSIVE ordina_da(_, _)
ordina_da(righe, k) ==
  IF k = 0 THEN <<>> ELSE inserisci(ordina_da(righe, k - 1), righe[k])

\* src/app.py:568: righe.sort(key=lambda x: parse_date(...))
ordina(righe) == ordina_da(righe, Len(righe))

\* src/app.py:562: the cleaned rows of the product, in sheet order
righe_prodotto(giac, nome) ==
  SelectSeq(giac, LAMBDA g : str_lower(strip(g.Prodotto)) = str_lower(nome))

\* src/app.py:551-558: cancella_prodotto_per_tipo up to the forced read
cancella_prodotto_per_tipo_start(t, dati, max) ==
  /\ Arrivo(t, max)
  /\ LET me == [IdleTh EXCEPT !.req = Req("cancella_prodotto_per_tipo",
                                          strip(dati.nome), <<>>, dati.qta,
                                          <<>>, 0, TRUE)]
     IN IF me.req.nome = <<>> \/ me.req.qta < 1
          THEN Finish(t, me, "invalid")
          ELSE Set(t, [me EXCEPT !.pc = "check"]) /\ UNCHANGED hist
  /\ UNCHANGED <<calc, anagrafica, ws0, ws, cache, now, nfid, wver, invVer>>

\* src/app.py:558-569
cancella_prodotto_per_tipo_resolve(t) ==
  /\ th[t].pc = "resolve" /\ th[t].req.op = "cancella_prodotto_per_tipo"
  /\ IF th[t].ret.sheet_ref = None
       THEN Finish(t, th[t], "store_unavailable")
       ELSE /\ Set(t, [th[t] EXCEPT
                 !.righe = ordina(righe_prodotto(th[t].ret.giacenze, th[t].req.nome)),
                 !.da_rimuovere = th[t].req.qta, !.i = 1, !.pc = "rloop"])
            /\ UNCHANGED hist
  /\ UNCHANGED <<calc, anagrafica, ws0, nreq, ws, cache, now, nfid, wver, invVer>>

\* src/app.py:571-573: the loop has more to take from
rloop_attivo(me) == me.i <= Len(me.righe) /\ me.da_rimuovere > 0

\* src/app.py:574-584: one update_cell of the loop succeeds
cancella_prodotto_per_tipo_write(t) ==
  /\ th[t].pc = "rloop" /\ rloop_attivo(th[t])
  /\ LET me == th[t]
         r == me.righe[me.i]
     IN /\ ws' = IF r.Qta > me.da_rimuovere
                   THEN update_cell_qta(ws, r.riga_id, r.Qta - me.da_rimuovere)
                   ELSE update_cell_qta(ws, r.riga_id, 0)
        /\ Set(t, [me EXCEPT
              !.da_rimuovere = IF r.Qta > me.da_rimuovere THEN 0 ELSE @ - r.Qta,
              !.log = Append(@, Chiamata("update_cell", r.riga_id, 2,
                                         IF r.Qta > me.da_rimuovere
                                           THEN r.Qta - me.da_rimuovere ELSE 0,
                                         me.i, TRUE, ws)),
              !.i = @ + 1, !.nwr = @ + 1, !.nok = @ + 1, !.lastw = wver + 1])
  /\ wver' = wver + 1
  /\ UNCHANGED <<calc, anagrafica, ws0, nreq, cache, now, hist, nfid, invVer>>

\* src/app.py:587-588: an update_cell of the loop raises
cancella_prodotto_per_tipo_raise(t) ==
  /\ th[t].pc = "rloop" /\ rloop_attivo(th[t])
  /\ LET me == th[t]
         r == me.righe[me.i]
     IN Finish(t, [me EXCEPT
                     !.nwr = @ + 1,
                     !.log = Append(@, Chiamata("update_cell", r.riga_id, 2,
                                                IF r.Qta > me.da_rimuovere
                                                  THEN r.Qta - me.da_rimuovere ELSE 0,
                                                me.i, FALSE, ws))],
               "store_error")
  /\ UNCHANGED <<calc, anagrafica, ws0, nreq, ws, cache, now, nfid, wver, invVer>>

\* src/app.py:571-573, 585: the loop ends
cancella_prodotto_per_tipo_fine(t) ==
  /\ th[t].pc = "rloop" /\ ~rloop_attivo(th[t])
  /\ Set(t, [th[t] EXCEPT !.pc = "inval"])
  /\ UNCHANGED <<calc, anagrafica, ws0, nreq, ws, cache, now, hist, nfid, wver, invVer>>

\* src/app.py:590-592: cancella_tutto_magazzino up to the forced read
cancella_tutto_magazzino_start(t, max) ==
  /\ Arrivo(t, max)
  /\ Set(t, [IdleTh EXCEPT !.req = Req("cancella_tutto_magazzino", <<>>, <<>>, 0,
                                       <<>>, 0, TRUE),
                           !.pc = "check"])
  /\ UNCHANGED <<calc, anagrafica, ws0, ws, cache, now, hist, nfid, wver, invVer>>

\* src/app.py:592-595
cancella_tutto_magazzino_resolve(t) ==
  /\ th[t].pc = "resolve" /\ th[t].req.op = "cancella_tutto_magazzino"
  /\ IF th[t].ret.sheet_ref = None
       THEN Finish(t, th[t], "store_unavailable")
       ELSE Set(t, [th[t] EXCEPT !.pc = "getall"]) /\ UNCHANGED hist
  /\ UNCHANGED <<calc, anagrafica, ws0, nreq, ws, cache, now, nfid, wver, invVer>>

\* src/app.py:597-598: n = len(ws.get_all_values())
cancella_tutto_magazzino_getall(t) ==
  /\ th[t].pc = "getall"
  /\ Set(t, [th[t] EXCEPT !.i = Len(ws), !.pc = "del"])
  /\ UNCHANGED <<calc, anagrafica, ws0, nreq, ws, cache, now, hist, nfid, wver, invVer>>

\* cancella_tutto_magazzino_delete going from row 2 up to row n
cancella_tutto_magazzino_delete_su(t) ==
  /\ th[t].pc = "del"
  /\ IF th[t].i > 1
       THEN /\ ws' = delete_rows(ws, 2 + th[t].nok)
            /\ wver' = wver + 1
            /\ Set(t, [th[t] EXCEPT
                  !.log = Append(@, Chiamata("delete_rows", 2 + th[t].nok, 0, 0, 0,
                                             TRUE, ws)),
                  !.i = @ - 1, !.nwr = @ + 1, !.nok = @ + 1, !.lastw = wver + 1])
       ELSE /\ Set(t, [th[t] EXCEPT !.pc = "inval"])
            /\ UNCHANGED <<ws, wver>>
  /\ UNCHANGED <<calc, anagrafica, ws0, nreq, cache, now, hist, nfid, invVer>>

\* src/app.py:599-601: delete_rows(i) for i = n down to 2, then invalidate
cancella_tutto_magazzino_delete(t) ==
  /\ th[t].pc = "del"
  /\ IF th[t].i > 1
       THEN /\ ws' = delete_rows(ws, th[t].i)
            /\ wver' = wver + 1
            /\ Set(t, [th[t] EXCEPT
                  !.log = Append(@, Chiamata("delete_rows", th[t].i, 0, 0, 0, TRUE, ws)),
                  !.i = @ - 1, !.nwr = @ + 1, !.nok = @ + 1, !.lastw = wver + 1])
       ELSE /\ Set(t, [th[t] EXCEPT !.pc = "inval"])
            /\ UNCHANGED <<ws, wver>>
  /\ UNCHANGED <<calc, anagrafica, ws0, nreq, cache, now, hist, nfid, invVer>>

\* src/app.py:603-604: get_all_values or a delete_rows raises
cancella_tutto_magazzino_raise(t) ==
  /\ \/ th[t].pc = "getall"
     \/ th[t].pc = "del" /\ th[t].i > 1
  /\ Finish(t, [th[t] EXCEPT
                  !.nwr = IF th[t].pc = "del" THEN @ + 1 ELSE @,
                  !.log = IF th[t].pc = "del"
                            THEN Append(@, Chiamata("delete_rows", th[t].i, 0, 0, 0,
                                                    FALSE, ws))
                            ELSE @],
            "store_error")
  /\ UNCHANGED <<calc, anagrafica, ws0, nreq, ws, cache, now, nfid, wver, invVer>>

\* src/app.py:613-620: rimuovi_quantita up to the forced read
rimuovi_quantita_start(t, dati, max) ==
  /\ Arrivo(t, max)
  /\ LET me == [IdleTh EXCEPT !.req = Req("rimuovi_quantita", <<>>, <<>>, dati.qta,
                                          <<>>, dati.riga_id, TRUE)]
     IN IF me.req.riga_id < 2 \/ me.req.qta < 1
          THEN Finish(t, me, "invalid")
          ELSE Set(t, [me EXCEPT !.pc = "check"]) /\ UNCHANGED hist
  /\ UNCHANGED <<calc, anagrafica, ws0, ws, cache, now, nfid, wver, invVer>>

\* src/app.py:620-623
rimuovi_quantita_resolve(t) ==
  /\ th[t].pc = "resolve" /\ th[t].req.op = "rimuovi_quantita"
  /\ IF th[t].ret.sheet_ref = None
       THEN Finish(t, th[t], "store_unavailable")
       ELSE Set(t, [th[t] EXCEPT !.pc = "cell"]) /\ UNCHANGED hist
  /\ UNCHANGED <<calc, anagrafica, ws0, nreq, ws, cache, now, nfid, wver, invVer>>

\* ws.cell(riga_id, 2).value: the quantity cell, empty below the last row
cell_qta(w, riga_id) == IF riga_id <= Len(w) THEN w[riga_id].Qta ELSE Blank

\* src/app.py:625: current = int(ws.cell(riga_id, 2).value or 0); text that
\* is no number raises ValueError, as does a failing remote read
rimuovi_quantita_cell(t) ==
  /\ th[t].pc = "cell"
  /\ \/ /\ cell_qta(ws, th[t].req.riga_id).k # "txt"
        /\ Set(t, [th[t] EXCEPT
              !.current = int_or_zero(cell_qta(ws, th[t].req.riga_id)),
              !.pc = "upd"])
        /\ UNCHANGED hist
     \/ Finish(t, th[t], "store_error")
  /\ UNCHANGED <<calc, anagrafica, ws0, nreq, ws, cache, now, nfid, wver, invVer>>

\* rimuovi_quantita_write that writes current - quantita as it is
rimuovi_quantita_write_senza_max(t) ==
  /\ th[t].pc = "upd"
  /\ LET new_val == th[t].current - th[t].req.qta
     IN /\ ws' = update_cell_qta(ws, th[t].req.riga_id, new_val)
        /\ Set(t, [th[t] EXCEPT
              !.nwr = @ + 1, !.nok = @ + 1, !.lastw = wver + 1,
              !.log = Append(@, Chiamata("update_cell", th[t].req.riga_id, 2,
                                         new_val, 0, TRUE, ws)),
              !.pc = "inval"])
  /\ wver' = wver + 1
  /\ UNCHANGED <<calc, anagrafica, ws0, nreq, cache, now, hist, nfid, invVer>>

\* src/app.py:626-627: update_cell(riga_id, 2, max(0, current - quantita))
rimuovi_quantita_write(t) ==
  /\ th[t].pc = "upd"
  /\ LET d == th[t].current - th[t].req.qta
         new_val == IF d > 0 THEN d ELSE 0
     IN /\ ws' = update_cell_qta(ws, th[t].req.riga_id, new_val)
        /\ Set(t, [th[t] EXCEPT
              !.nwr = @ + 1, !.nok = @ + 1, !.lastw = wver + 1,
              !.log = Append(@, Chiamata("update_cell", th[t].req.riga_id, 2,
                                         new_val, 0, TRUE, ws)),
              !.pc = "inval"])
  /\ wver' = wver + 1
  /\ UNCHANGED <<calc, anagrafica, ws0, nreq, cache, now, hist, nfid, invVer>>

\* src/app.py:630-631: the update raises
rimuovi_quantita_raise(t) ==
  /\ th[t].pc = "upd"
  /\ LET d == th[t].current - th[t].req.qta
         new_val == IF d > 0 THEN d ELSE 0
     IN Finish(t, [th[t] EXCEPT
                     !.nwr = @ + 1,
                     !.log = Append(@, Chiamata("update_cell", th[t].req.riga_id, 2,
                                                new_val, 0, FALSE, ws))],
               "store_error")
  /\ UNCHANGED <<calc, anagrafica, ws0, nreq, ws, cache, now, nfid, wver, invVer>>

\* src/app.py:633-635: elimina_prodotto up to the forced read
elimina_prodotto_start(t, riga_id, max) ==
  /\ Arrivo(t, max)
  /\ Set(t, [IdleTh EXCEPT !.req = Req("elimina_prodotto", <<>>, <<>>, 0, <<>>,
                                       riga_id, TRUE),
                           !.pc = "check"])
  /\ UNCHANGED <<calc, anagrafica, ws0, ws, cache, now, hist, nfid, wver, invVer>>

\* elimina_prodotto_resolve that does not look at the handle
elimina_prodotto_resolve_senza_sh(t) ==
  /\ th[t].pc = "resolve" /\ th[t].req.op = "elimina_prodotto"
  /\ IF th[t].req.riga_id >= 2
       THEN Set(t, [th[t] EXCEPT !.pc = "elim"]) /\ UNCHANGED hist
       ELSE Finish(t, th[t], "success")
  /\ UNCHANGED <<calc, anagrafica, ws0, nreq, ws, cache, now, nfid, wver, invVer>>

\* src/app.py:635-643
elimina_prodotto_resolve(t) ==
  /\ th[t].pc = "resolve" /\ th[t].req.op = "elimina_prodotto"
  /\ IF th[t].ret.sheet_ref = None
       THEN Finish(t, th[t], "store_unavailable")
     ELSE IF th[t].req.riga_id >= 2
       THEN Set(t, [th[t] EXCEPT !.pc = "elim"]) /\ UNCHANGED hist
     ELSE Finish(t, th[t], "success")
  /\ UNCHANGED <<calc, anagrafica, ws0, nreq, ws, cache, now, nfid, wver, invVer>>

\* elimina_prodotto_delete counting the rows from 0
elimina_prodotto_delete_da_zero(t) ==
  /\ th[t].pc = "elim"
  /\ ws' = delete_rows(ws, th[t].req.riga_id - 1)
  /\ wver' = wver + 1
  /\ Set(t, [th[t] EXCEPT !.nwr = @ + 1, !.nok = @ + 1, !.lastw = wver + 1,
                          !.log = Append(@, Chiamata("delete_rows", th[t].req.riga_id - 1,
                                                     0, 0, 0, TRUE, ws)),
                          !.pc = "inval"])
  /\ UNCHANGED <<calc, anagrafica, ws0, nreq, cache, now, hist, nfid, invVer>>

\* src/app.py:641: delete_rows(riga_id) succeeds
elimina_prodotto_delete(t) ==
  /\ th[t].pc = "elim"
  /\ ws' = delete_rows(ws, th[t].req.riga_id)
  /\ wver' = wver + 1
  /\ Set(t, [th[t] EXCEPT !.nwr = @ + 1, !.nok = @ + 1, !.lastw = wver + 1,
                          !.log = Append(@, Chiamata("delete_rows", th[t].req.riga_id,
                                                     0, 0, 0, TRUE, ws)),
                          !.pc = "inval"])
  /\ UNCHANGED <<calc, anagrafica, ws0, nreq, cache, now, hist, nfid, invVer>>

\* src/app.py:644-645: delete_rows raises
elimina_prodotto_raise(t) ==
  /\ th[t].pc = "elim"
  /\ Finish(t, [th[t] EXCEPT !.nwr = @ + 1,
                             !.log = Append(@, Chiamata("delete_rows",
                                                        th[t].req.riga_id, 0, 0, 0,
                                                        FALSE, ws))],
            "store_error")
  /\ UNCHANGED <<calc, anagrafica, ws0, nreq, ws, cache, now, nfid, wver, invVer>>

(* -------------------------------- reads -------------------------------- *)
\* src/app.py:114-115, 274, 280: a page handler reads through the cache
leggi_db_start(t, max) ==
  /\ Arrivo(t, max)
  /\ Set(t, [IdleTh EXCEPT !.req = Req("leggi_db", <<>>, <<>>, 0, <<>>, 0, FALSE),
                           !.pc = "check"])
  /\ UNCHANGED <<calc, anagrafica, ws0, ws, cache, now, hist, nfid, wver, invVer>>

\* src/app.py:356, 608: a page handler that forces the refresh
dettaglio_prodotto_start(t, max) ==
  /\ Arrivo(t, max)
  /\ Set(t, [IdleTh EXCEPT !.req = Req("dettaglio_prodotto", <<>>, <<>>, 0, <<>>,
                                       0, TRUE),
                           !.pc = "check"])
  /\ UNCHANGED <<calc, anagrafica, ws0, ws, cache, now, hist, nfid, wver, invVer>>

\* src/app.py:648-653: refresh_cache: invalidate_cache, then a forced read
refresh_cache_start(t, max) ==
  /\ Arrivo(t, max)
  /\ cache' = invalidated(cache)
  /\ Set(t, [IdleTh EXCEPT !.req = Req("refresh_cache", <<>>, <<>>, 0, <<>>, 0, TRUE),
                           !.inval = TRUE, !.pc = "check"])
  /\ UNCHANGED <<calc, anagrafica, ws0, ws, now, hist, nfid, wver, invVer>>

\* the handler of a read has its data and answers
lettura_resolve(t) ==
  /\ th[t].pc = "resolve"
  /\ th[t].req.op \in Letture
  /\ Finish(t, th[t], "success")
  /\ UNCHANGED <<calc, anagrafica, ws0, nreq, ws, cache, now, nfid, wver, invVer>>

(* ------------------------------- inputs -------------------------------- *)
N_Yo == <<"Y", "o">>
N_yo == <<"y", "o", " ">>
N_Pa == <<"P", "a">>
N_Su == <<"S", "u">>
N_X == <<"X">>
L_a1 == <<"a", "1">>
L_La1 == <<"L", "a", "1">>
L_LA1 == <<"L", "A", "1">>

Dati(nome, lotto, qta) == [nome |-> nome, lotto |-> lotto, qta |-> qta, riga_id |-> 0]

\* the stock sheets a run may start from
W0 == <<Header>>
W1 == <<Header,
        Riga(N_Yo, Num(4), "busta", L_LA1, Date("iso", 25), Date("iso", 10)),
        Riga(N_Pa, Num(2), "busta", lotto_interno(<<"P", "A">>), Date("iso", 21),
             Date("iso", Today))>>

DatiStampa == {Dati(n, l, 2) : n \in {N_Yo, N_yo, N_Su, N_X}, l \in {<<>>, L_a1}}
DatiAggiungi == {Dati(n, l, 3) : n \in {N_Yo, N_Su, N_Pa}, l \in {<<>>, L_a1, L_La1}}
DatiRistampa == {Dati(n, l, 1) : n \in {N_Yo, N_Pa}, l \in {<<>>, L_a1}}
DatiLinea ==
  {<<Dati(N_Yo, L_a1, 2), Dati(N_Yo, L_La1, 1)>>,
   <<Dati(N_X, <<>>, 1), Dati(N_Yo, L_a1, 2), Dati(N_Pa, L_a1, 0)>>,
   <<Dati(N_Su, <<>>, 1), Dati(N_Yo, <<>>, 1)>>}
DatiCancella == {Dati(N_Yo, <<>>, 1), Dati(N_Yo, <<>>, 5)}
DatiRimuovi == {[Dati(<<>>, <<>>, q) EXCEPT !.riga_id = r] : q \in {1, 9}, r \in {1, 2}}
RigheElimina == {1, 2}

(* ------------------------- initial states ------------------------------ *)
\* The module is imported: the cache is empty, or filled by the preload of
\* src/app.py:680-686 when that succeeded.
InitStato(cataloghi, fogli) ==
  /\ anagrafica \in cataloghi
  /\ ws \in fogli
  /\ ws0 = ws
  /\ now = 0
  /\ \/ cache = EmptyCache /\ nfid = 0
     \/ /\ cache = [snap |-> Snap(anagrafica, giacenze_pulite(ws), "sh", 1, 1, 1, 0),
                    timestamp |-> <<0>>]
        /\ nfid = 1
  /\ th = [t \in Threads |-> IdleTh]
  /\ hist = <<>>
  /\ nreq = 0
  /\ wver = 0
  /\ invVer = 0

InitWith(cataloghi, fogli) == InitStato(cataloghi, fogli) /\ calc = NoCalc

Init == InitWith({<<>>, FullCatalog}, {W0, W1})

(* ---------------- sequential specification: one client ----------------- *)
Lettura(t) ==
  \/ leggi_db_cached_check(t)
  \/ leggi_db_cached_fetch(t)
  \/ leggi_db_cached_store(t)
  \/ leggi_db_cached_raise(t)
  \/ leggi_db_cached_except(t)

\* the steps of a client that issues up to max requests, one after the other
Passi(max) ==
  \/ \E d \in DatiStampa : stampa_singolo_start(1, d, max)
  \/ \E d \in DatiAggiungi : aggiungi_prodotto_start(1, d, max)
  \/ \E d \in DatiRistampa : stampa_ristampa_start(1, d, max)
  \/ \E its \in DatiLinea : stampa_linea_totale_start(1, its, max)
  \/ \E d \in DatiCancella : cancella_prodotto_per_tipo_start(1, d, max)
  \/ cancella_tutto_magazzino_start(1, max)
  \/ \E d \in DatiRimuovi : rimuovi_quantita_start(1, d, max)
  \/ \E r \in RigheElimina : elimina_prodotto_start(1, r, max)
  \/ leggi_db_start(1, max)
  \/ dettaglio_prodotto_start(1, max)
  \/ refresh_cache_start(1, max)
  \/ \E t \in Threads :
       \/ Lettura(t)
       \/ lettura_resolve(t)
       \/ stampa_singolo_resolve(t)
       \/ aggiungi_prodotto_resolve(t)
       \/ scrivi(t)
       \/ scrivi_raise(t)
       \/ stampa_ristampa_resolve(t)
       \/ stampa_linea_totale_resolve(t)
       \/ stampa_linea_totale_item(t)
       \/ stampa_linea_totale_write(t)
       \/ stampa_linea_totale_write2(t)
       \/ stampa_linea_totale_raise(t)
       \/ cancella_prodotto_per_tipo_resolve(t)
       \/ cancella_prodotto_per_tipo_write(t)
       \/ cancella_prodotto_per_tipo_raise(t)
       \/ cancella_prodotto_per_tipo_fine(t)
       \/ cancella_tutto_magazzino_resolve(t)
       \/ cancella_tutto_magazzino_getall(t)
       \/ cancella_tutto_magazzino_delete(t)
       \/ cancella_tutto_magazzino_raise(t)
       \/ rimuovi_quantita_resolve(t)
       \/ rimuovi_quantita_cell(t)
       \/ rimuovi_quantita_write(t)
       \/ rimuovi_quantita_raise(t)
       \/ elimina_prodotto_resolve(t)
       \/ elimina_prodotto_delete(t)
       \/ elimina_prodotto_raise(t)
       \/ invalidate_cache(t)
       \/ respond(t)

Next == Passi(MaxReq)

Spec == Init /\ [][Next]_vars

(* ------------- the same client, one request from each start ------------ *)
MaxSingola == 1

NextSingola == Passi(MaxSingola)

SpecSingola == Init /\ [][NextSingola]_vars

(* ------------- cache specification: reads while time passes ------------ *)
MaxCacheReq == 3

InitCache == InitWith({<<>>, FullCatalog}, {W1})

\* the instants the clock is sampled at: around the time-to-live
Istanti == {0, 1, CACHE_TTL_SECONDS - 1, CACHE_TTL_SECONDS, MaxNow}

NextCache ==
  \/ leggi_db_start(1, MaxCacheReq)
  \/ dettaglio_prodotto_start(1, MaxCacheReq)
  \/ refresh_cache_start(1, MaxCacheReq)
  \/ \E t \in Threads :
       \/ Lettura(t)
       \/ lettura_resolve(t)
  \/ \E n \in Istanti : Tick(n)

SpecCache == InitCache /\ [][NextCache]_vars

(* -------- concurrent specification: two request threads interleave ------ *)
MaxConcReq == 3

InitConc == InitWith({<<P_Yo>>}, {W0})

NextConc ==
  \E t \in Threads :
    \/ leggi_db_start(t, MaxConcReq)
    \/ dettaglio_prodotto_start(t, MaxConcReq)
    \/ aggiungi_prodotto_start(t, Dati(N_Yo, L_a1, 3), MaxConcReq)
    \/ Lettura(t)
    \/ lettura_resolve(t)
    \/ aggiungi_prodotto_resolve(t)
    \/ scrivi(t)
    \/ scrivi_raise(t)
    \/ invalidate_cache(t)
    \/ respond(t)

SpecConc == InitConc /\ [][NextConc]_vars

(* ---- concurrent specification: two threads add to and take from stock --- *)
\* each thread of the pool serves one request
RichiesteQta == Cardinality(Threads)

InitQta == InitWith({<<P_Yo>>}, {W1})

NextQta ==
  \E t \in Threads :
    \/ aggiungi_prodotto_start(t, Dati(N_Yo, L_a1, 3), RichiesteQta)
    \/ stampa_singolo_start(t, Dati(N_Yo, <<>>, 2), RichiesteQta)
    \/ stampa_linea_totale_start(t, <<Dati(N_Yo, L_a1, 1)>>, RichiesteQta)
    \/ rimuovi_quantita_start(t, [Dati(<<>>, <<>>, 9) EXCEPT !.riga_id = 2], RichiesteQta)
    \/ cancella_prodotto_per_tipo_start(t, Dati(N_Yo, <<>>, 5), RichiesteQta)
    \/ Lettura(t)
    \/ aggiungi_prodotto_resolve(t)
    \/ stampa_singolo_resolve(t)
    \/ scrivi(t)
    \/ scrivi_raise(t)
    \/ stampa_linea_totale_resolve(t)
    \/ stampa_linea_totale_item(t)
    \/ stampa_linea_totale_write(t)
    \/ stampa_linea_totale_write2(t)
    \/ stampa_linea_totale_raise(t)
    \/ rimuovi_quantita_resolve(t)
    \/ rimuovi_quantita_cell(t)
    \/ rimuovi_quantita_write(t)
    \/ rimuovi_quantita_raise(t)
    \/ cancella_prodotto_per_tipo_resolve(t)
    \/ cancella_prodotto_per_tipo_write(t)
    \/ cancella_prodotto_per_tipo_raise(t)
    \/ cancella_prodotto_per_tipo_fine(t)
    \/ invalidate_cache(t)
    \/ respond(t)

SpecQta == InitQta /\ [][NextQta]_vars

(* -- concurrent specification: a row is deleted while another is updated -- *)
InitSposta == InitWith({FullCatalog}, {W1})

NextSposta ==
  \E t \in Threads :
    \/ aggiungi_prodotto_start(t, Dati(N_Pa, <<>>, 3), RichiesteQta)
    \/ cancella_prodotto_per_tipo_start(t, Dati(N_Pa, <<>>, 1), RichiesteQta)
    \/ elimina_prodotto_start(t, 2, RichiesteQta)
    \/ Lettura(t)
    \/ aggiungi_prodotto_resolve(t)
    \/ scrivi(t)
    \/ scrivi_raise(t)
    \/ cancella_prodotto_per_tipo_resolve(t)
    \/ cancella_prodotto_per_tipo_write(t)
    \/ cancella_prodotto_per_tipo_raise(t)
    \/ cancella_prodotto_per_tipo_fine(t)
    \/ elimina_prodotto_resolve(t)
    \/ elimina_prodotto_delete(t)
    \/ elimina_prodotto_raise(t)
    \/ invalidate_cache(t)
    \/ respond(t)

SpecSposta == InitSposta /\ [][NextSposta]_vars

(* ------- helper functions on their own: inputs from bounded sets ------- *)
\* longest text given to normalizza_lotto_esterno
MaxLen == 3
\* most stock rows given to the lot selection
MaxRighe == 3

Alfabeto == {" ", "a", "l", "L"}

RECURSIVE Testi(_)
Testi(n) ==
  IF n = 0 THEN {<<>>}
  ELSE Testi(n - 1) \cup
       {Append(s, c) : s \in {u \in Testi(n - 1) : Len(u) = n - 1}, c \in Alfabeto}

InitNorm ==
  /\ InitStato({<<>>}, {W0})
  /\ cache = EmptyCache
  /\ calc \in {[x |-> s, y |-> <<>>] : s \in Testi(MaxLen)}

\* src/app.py:132-139 applied to the input, then to its own result
normalizza_lotto_esterno_call ==
  /\ Len(calc.y) < 2
  /\ calc' = [calc EXCEPT !.y = Append(@, normalizza_lotto_esterno(
                                IF calc.y = <<>> THEN calc.x ELSE calc.y[Len(calc.y)]))]
  /\ UNCHANGED <<anagrafica, ws0, nreq, ws, cache, now, th, hist, nfid, wver, invVer>>

NextNorm == normalizza_lotto_esterno_call

SpecNorm == InitNorm /\ [][NextNorm]_vars

\* the stock rows the selection is tried on: names that match "Yo" up to case
\* and blanks or do not, start dates in both formats and unparsable, one row
\* with no quantity left, one with no lot; the lot tells the others apart
RigheFifo(i) ==
  {Riga(n, Num(1), "busta", <<"L", digit(i)>>, DateND, d) :
     n \in {N_Yo, N_yo, N_Pa},
     d \in {Date("iso", 10), Date("dmy", 10), Date("dmy", 12), DateND}}
  \cup {Riga(N_Yo, Num(0), "busta", <<"L", digit(i)>>, DateND, Date("iso", 14)),
        Riga(N_Yo, Num(1), "busta", <<>>, DateND, Date("dmy", 12))}

RECURSIVE FogliFifo(_)
FogliFifo(n) ==
  IF n = 0 THEN {<<Header>>}
  ELSE FogliFifo(n - 1) \cup
       {Append(w, r) : w \in {u \in FogliFifo(n - 1) : Len(u) = n}, r \in RigheFifo(n)}

InitFifo ==
  /\ InitStato({<<P_Yo>>}, {W0})
  /\ cache = EmptyCache
  /\ calc \in {[x |-> w, y |-> <<>>] : w \in FogliFifo(MaxRighe)}

\* src/app.py:309-325 for the external product "Yo" with no lot supplied, on
\* the cleaned rows of the sheet
lotto_stampa_call ==
  /\ calc.y = <<>>
  /\ calc' = [calc EXCEPT !.y = <<lotto_stampa(P_Yo, giacenze_pulite(calc.x),
                                               N_Yo, <<>>)>>]
  /\ UNCHANGED <<anagrafica, ws0, nreq, ws, cache, now, th, hist, nfid, wver, invVer>>

NextFifo == lotto_stampa_call

SpecFifo == InitFifo /\ [][NextFifo]_vars

(* ------- one client takes stock of a product from sheets of rows -------- *)
\* most stock rows of a sheet stock is taken from
MaxTipo == 3

\* rows of the product and of another one, with ISO, DD/MM/YYYY and
\* unparsable start dates; the lot tells equal rows apart
RigheTipo(i) ==
  {Riga(n, Num(2), "busta", <<"L", digit(i)>>, DateND, d) :
     n \in {N_Yo, N_Pa},
     d \in {Date("iso", 10), Date("iso", 12), Date("dmy", 11), DateND}}

RECURSIVE FogliTipo(_)
FogliTipo(n) ==
  IF n = 0 THEN {<<Header>>}
  ELSE FogliTipo(n - 1) \cup
       {Append(w, r) : w \in {u \in FogliTipo(n - 1) : Len(u) = n}, r \in RigheTipo(n)}

InitTipo ==
  /\ InitStato({<<P_Yo>>}, FogliTipo(MaxTipo))
  /\ cache = EmptyCache
  /\ calc = NoCalc

NextTipo ==
  \/ \E q \in {1, 3, 9} : cancella_prodotto_per_tipo_start(1, Dati(N_Yo, <<>>, q), 1)
  \/ Lettura(1)
  \/ cancella_prodotto_per_tipo_resolve(1)
  \/ cancella_prodotto_per_tipo_write(1)
  \/ cancella_prodotto_per_tipo_raise(1)
  \/ cancella_prodotto_per_tipo_fine(1)
  \/ invalidate_cache(1)
  \/ respond(1)

SpecTipo == InitTipo /\ [][NextTipo]_vars

(* ------------- the name lines of a label, on their own ------------------ *)
\* src/app.py:173
max_chars == 16

\* str.split(): the words of s, the blanks between them dropped
inizi(s) == {i \in 1..Len(s) : s[i] # " " /\ (i = 1 \/ s[i - 1] = " ")}

fine_parola(s, i) ==
  CHOOSE j \in i..Len(s) :
    (\A k \in i..j : s[k] # " ") /\ (j = Len(s) \/ s[j + 1] = " ")

RECURSIVE split_da(_, _)
split_da(s, da) ==
  IF da = {} THEN <<>>
  ELSE LET i == CHOOSE m \in da : \A n \in da : m <= n
       IN <<SubSeq(s, i, fine_parola(s, i))>> \o split_da(s, da \ {i})

split(s) == split_da(s, inizi(s))

\* s[:n]
primi(s, n) == SubSeq(s, 1, IF Len(s) < n THEN Len(s) ELSE n)

\* s[a:b], 0-based as in the code
fetta(s, a, b) == SubSeq(s, a + 1, IF Len(s) < b THEN Len(s) ELSE b)

\* src/app.py:190-198: the loop over the words, from word k on
RECURSIVE a_capo(_, _, _, _)
a_capo(words, k, line1, current) ==
  IF k > Len(words) THEN [line1 |-> line1, current |-> current]
  ELSE LET word == words[k]
       IN IF Len(current) + Len(word) + 1 <= max_chars
            THEN a_capo(words, k + 1, line1, current \o word \o <<" ">>)
            ELSE IF line1 = <<>>
                   THEN a_capo(words, k + 1, strip(current), word \o <<" ">>)
                   ELSE a_capo(words, k + 1, line1, current \o word \o <<" ">>)

\* src/app.py:174-222: the lines drawn for the name, from the top
righe_nome(nome) ==
  IF Len(nome) > max_chars
    THEN LET r == a_capo(split(nome), 1, <<>>, <<>>)
             l1 == IF r.line1 = <<>> THEN primi(strip(r.current), max_chars)
                   ELSE r.line1
             l2 == IF r.line1 = <<>> THEN <<>>
                   ELSE primi(strip(r.current), max_chars)
             ripiego == l2 = <<>> /\ Len(nome) > max_chars /\ l1 = <<>>
             line1 == IF ripiego THEN primi(nome, max_chars) ELSE l1
             line2 == IF ripiego THEN strip(fetta(nome, max_chars, max_chars * 2))
                      ELSE l2
         IN (IF line1 # <<>> THEN <<line1>> ELSE <<>>)
              \o (IF line2 # <<>> THEN <<line2>> ELSE <<>>)
    ELSE <<nome>>

\* most words in a name given to the label
MaxParole == 3

\* word lengths around the limit of a line
Lunghezze == {1, 7, 15, max_chars, max_chars + 1, 2 * max_chars + 1}

Parola(n, c) == [i \in 1..n |-> c]

\* names of up to n words, one blank between them, the k-th word of one letter
RECURSIVE Nomi(_)
Nomi(n) ==
  IF n = 0 THEN {}
  ELSE IF n = 1 THEN {Parola(l, "a") : l \in Lunghezze}
  ELSE Nomi(n - 1) \cup
       {u \o <<" ">> \o Parola(l, <<"a", "b", "c", "d", "e">>[n]) :
          u \in {v \in Nomi(n - 1) : Len(split(v)) = n - 1}, l \in Lunghezze}

InitEtichetta ==
  /\ InitStato({<<>>}, {W0})
  /\ cache = EmptyCache
  /\ calc \in {[x |-> s, y |-> <<>>] : s \in Nomi(MaxParole)}

\* src/app.py:142, 173-222 applied to the name
disegna_etichetta_call ==
  /\ calc.y = <<>>
  /\ calc' = [calc EXCEPT !.y = <<righe_nome(calc.x)>>]
  /\ UNCHANGED <<anagrafica, ws0, nreq, ws, cache, now, th, hist, nfid, wver, invVer>>

NextEtichetta == disegna_etichetta_call

SpecEtichetta == InitEtichetta /\ [][NextEtichetta]_vars

(* ------ one client reads raw stock rows, between removals and deletes ----- *)
MaxGrezzeReq == 2

\* the raw rows of the sheet: a name with a trailing blank, a blank or an
\* empty name, a quantity of zero, below zero, not a number or missing
RigheGrezze ==
  {Riga(N_yo, Num(1), "busta", L_LA1, DateND, Date("iso", 10)),
   Riga(N_Yo, Num(0), "busta", L_LA1, DateND, Date("iso", 10)),
   Riga(N_Yo, Num(0 - 1), "busta", L_LA1, DateND, Date("iso", 10)),
   Riga(N_Yo, Txt, "busta", L_LA1, DateND, Date("iso", 10)),
   Riga(N_Yo, Blank, "busta", L_LA1, DateND, Date("iso", 10)),
   Riga(<<" ">>, Num(2), "busta", L_LA1, DateND, Date("iso", 10)),
   Riga(<<>>, Num(2), "busta", L_LA1, DateND, Date("iso", 10))}

\* each raw row, followed by a row that is in order
FogliGrezzi ==
  {<<Header, r, Riga(N_Pa, Num(2), "busta", L_a1, DateND, Date("iso", 12))>> :
     r \in RigheGrezze}

InitGrezze == InitWith({<<P_Yo>>}, FogliGrezzi)

NextGrezze ==
  \/ leggi_db_start(1, MaxGrezzeReq)
  \/ refresh_cache_start(1, MaxGrezzeReq)
  \/ rimuovi_quantita_start(1, [Dati(<<>>, <<>>, 1) EXCEPT !.riga_id = 2], MaxGrezzeReq)
  \/ elimina_prodotto_start(1, 2, MaxGrezzeReq)
  \/ Lettura(1)
  \/ lettura_resolve(1)
  \/ rimuovi_quantita_resolve(1)
  \/ rimuovi_quantita_cell(1)
  \/ rimuovi_quantita_write(1)
  \/ rimuovi_quantita_raise(1)
  \/ elimina_prodotto_resolve(1)
  \/ elimina_prodotto_delete(1)
  \/ elimina_prodotto_raise(1)
  \/ invalidate_cache(1)
  \/ respond(1)

SpecGrezze == InitGrezze /\ [][NextGrezze]_vars

(* ============================== properties ============================== *)
\* the rows of the raw sheet w that hold the key (lowercased name, lot)
righe_con_chiave(w, key) == {i \in 2..Len(w) : chiave(w[i]) = key}

Singoli == {"stampa_singolo", "aggiungi_prodotto"}
Mutanti ==
  {"stampa_singolo", "aggiungi_prodotto", "stampa_linea_totale",
   "cancella_prodotto_per_tipo", "cancella_tutto_magazzino", "rimuovi_quantita",
   "elimina_prodotto"}

chiave_richiesta(h) == <<str_lower(h.req.nome), h.lotto>>

\* C1: two successive successful single-item add or print requests for the
\* same (lowercased name, normalized lot), on a sheet that had no row for the
\* key, leave exactly one row for the key, holding q1 + q2.
C1_DueRichiesteUnaRiga ==
  (/\ Len(hist) = 2 /\ Attive = {}
   /\ hist[1].req.op \in Singoli /\ hist[2].req.op \in Singoli
   /\ hist[1].resp = "success" /\ hist[2].resp = "success"
   /\ chiave_richiesta(hist[1]) = chiave_richiesta(hist[2])
   /\ righe_con_chiave(ws0, chiave_richiesta(hist[1])) = {})
  => /\ Cardinality(righe_con_chiave(ws, chiave_richiesta(hist[1]))) = 1
     /\ \A i \in righe_con_chiave(ws, chiave_richiesta(hist[1])) :
          ws[i].Qta = Num(hist[1].req.qta + hist[2].req.qta)

\* C2: whenever no request is in progress, the cleaned stock of the sheet
\* holds at most one row per (lowercased name, normalized lot).
C2_UnaRigaPerChiave ==
  Attive = {} =>
    LET g == giacenze_pulite(ws)
    IN \A i, j \in 1..Len(g) : chiave(g[i]) = chiave(g[j]) => i = j

\* C3: a single print or add for an external product, with no lot supplied
\* and no stock row of the product carrying a lot, answers MissingLot and
\* issues no write.
C3_LottoMancante ==
  \A t \in Threads :
    LET me == th[t]
        ix == trova_prodotto(me.ret.anagrafica, me.req.nome)
    IN (/\ me.pc = "done" /\ me.req.op \in Singoli
        /\ me.resp \notin {"invalid", "store_unavailable"}
        /\ ix # 0
        /\ canon_categoria(me.ret.anagrafica[ix].CATEGORIA) = S_esterno
        /\ strip(me.req.lotto) = <<>>
        /\ \A i \in 1..Len(me.ret.giacenze) :
             str_lower(strip(me.ret.giacenze[i].Prodotto)) = str_lower(me.req.nome)
               => strip(me.ret.giacenze[i].Lotto) = <<>>)
       => me.resp = "missing_lot" /\ me.nwr = 0

\* the system-generated lot of the catalog product named nome
lotto_generato(anag, nome) == lotto_interno(anag[trova_prodotto(anag, nome)].SIGLA)

interno(anag, nome) ==
  /\ trova_prodotto(anag, nome) # 0
  /\ canon_categoria(anag[trova_prodotto(anag, nome)].CATEGORIA) = S_interno

\* C4: in single print, add, reprint and batch print, a product whose
\* category canonicalizes to internal gets the system-generated lot, whatever
\* lot the caller supplied.
C4_LottoInterno ==
  \A t \in Threads :
    LET me == th[t]
    IN /\ (/\ me.pc = "done" /\ me.resp = "success"
           /\ me.req.op \in {"stampa_singolo", "aggiungi_prodotto", "stampa_ristampa"}
           /\ interno(me.ret.anagrafica, me.req.nome))
          => me.lotto = lotto_generato(me.ret.anagrafica, me.req.nome)
       /\ (me.pc = "done" /\ me.req.op = "stampa_linea_totale")
          => \A k \in 1..Len(me.labels) :
               interno(me.ret.anagrafica, me.labels[k].nome)
                 => me.labels[k].lotto =
                      lotto_generato(me.ret.anagrafica, me.labels[k].nome)

\* C5: a mutating request that attempted at least one write has run
\* invalidate_cache by the time it returns.
C5_InvalidaSempre ==
  \A t \in Threads :
    (th[t].pc = "done" /\ th[t].req.op \in Mutanti /\ th[t].nwr >= 1)
      => th[t].inval

\* C6: a non-forced read whose check found the timestamp set and less than
\* 30 seconds old made no fetch and returned the cache as it was; one whose
\* check found the timestamp absent or 30 or more seconds old made exactly
\* one fetch.
C6_LetturaEntroTTL ==
  \A t \in Threads :
    LET me == th[t]
    IN (me.pc = "done" /\ me.req.op = "leggi_db")
       => IF me.chk.timestamp # <<>> /\ me.chk.now - me.chk.timestamp[1] < 30
            THEN me.nfetch = 0 /\ me.fast /\ me.ret = me.chk.snap
            ELSE me.nfetch = 1 /\ ~me.fast

\* a non-forced read that found the cache exactly 30 seconds old fetched
C6_Witness ==
  \E t \in Threads :
    /\ th[t].pc = "done" /\ th[t].req.op = "leggi_db"
    /\ th[t].chk.timestamp # <<>>
    /\ th[t].chk.now - th[t].chk.timestamp[1] = 30
    /\ th[t].nfetch = 1

\* C7: a forced read whose fetch failed after an earlier fetch had succeeded
\* returns the snapshot of that earlier fetch, whatever it holds.
C7_RipiegoSuCache ==
  \A t \in Threads :
    LET me == th[t]
    IN (/\ me.pc = "done" /\ me.req.force /\ me.failed
        /\ me.exc.tagS > 0)
       => /\ me.ret.anagrafica = me.exc.anagrafica
          /\ me.ret.giacenze = me.exc.giacenze
          /\ me.ret.sheet_ref = me.exc.sheet_ref

\* C8: a read whose fetch failed when no fetch had ever succeeded returns
\* empty products, empty stock and no handle, answers normally, and leaves
\* the four cache fields as they were.
C8_LetturaFallita ==
  [][\A t \in Threads :
       (th[t].pc = "except" /\ th'[t].pc # "except" /\ cache.snap.tagS = 0)
         => /\ th'[t].ret.anagrafica = <<>>
            /\ th'[t].ret.giacenze = <<>>
            /\ th'[t].ret.sheet_ref = None
            /\ th'[t].pc = "resolve"
            /\ cache' = cache]_vars

\* a read has failed with no snapshot to fall back on
C8_Witness ==
  \E t \in Threads :
    /\ th[t].pc = "done" /\ th[t].failed /\ th[t].exc.tagS = 0
    /\ th[t].ret.sheet_ref = None /\ th[t].resp = "success"

\* C9: a non-forced read that returns without fetching returns data fetched
\* no earlier than the last write whose request had run invalidate_cache
\* before the read began.
C9_NienteDatiVecchi ==
  \A t \in Threads :
    (th[t].pc = "done" /\ th[t].fast) => th[t].ret.ver >= th[t].chk.inv

\* C10: the three values a read returns come from one fetch, and so do the
\* three values the cache holds.
C10_UnSoloFetch ==
  /\ cache.snap.tagA = cache.snap.tagG /\ cache.snap.tagG = cache.snap.tagS
  /\ \A t \in Threads :
       th[t].ret.tagA = th[t].ret.tagG /\ th[t].ret.tagG = th[t].ret.tagS

\* a reader holds the snapshot of one fetch while the cache holds another's
C10_Witness ==
  \E t \in Threads :
    /\ th[t].pc = "done" /\ th[t].ret.tagA > 0
    /\ cache.snap.tagA > 0 /\ cache.snap.tagA # th[t].ret.tagA
    /\ \E u \in Threads \ {t} : th[u].pc \in {"fetch", "store", "except"}

\* C11: invalidate_cache changes only the timestamp, which it clears: the
\* cached products, stock and handle stay as they were; and a read whose
\* fetch fails while the timestamp is cleared and a snapshot is retained
\* returns that snapshot.
C11_InvalidaSoloTimestamp ==
  [][\A t \in Threads :
       /\ (\/ th[t].pc = "inval" /\ th'[t].pc = "respond"
           \/ th[t].pc \in {"idle", "done"} /\ th'[t].pc = "check"
              /\ th'[t].req.op = "refresh_cache")
          => cache'.snap = cache.snap /\ cache'.timestamp = <<>>
       /\ (/\ th[t].pc = "except" /\ th'[t].pc = "resolve"
           /\ cache.timestamp = <<>> /\ cache.snap.tagS > 0)
          => /\ th'[t].ret.anagrafica = cache.snap.anagrafica
             /\ th'[t].ret.giacenze = cache.snap.giacenze
             /\ th'[t].ret.sheet_ref = cache.snap.sheet_ref]_vars

\* what the specification says normalizeExternal does to a text that is not
\* blank: trim, uppercase, and prefix "L" unless the result starts with "L"
normalizzato(x) ==
  LET u == str_upper(strip(x))
  IN IF startswith(u, <<"L">>) THEN u ELSE <<"L">> \o u

rango(g) == IF g.Data_Inizio.f \in {"iso", "dmy"} THEN g.Data_Inizio.d ELSE 0

\* C13: with no lot supplied for an external product, the lot selected is
\* that of the stock row, among those whose trimmed name equals the product
\* name up to case, with the greatest parsed start date (unparsable lowest),
\* ties going to the greatest row id (no lot when that row carries none);
\* with no such row there is no lot.
C13_LottoFifo ==
  calc.y # <<>> =>
    LET giac == giacenze_pulite(calc.x)
        cand == {i \in 1..Len(giac) :
                   str_lower(strip(giac[i].Prodotto)) = str_lower(N_Yo)}
    IN IF cand = {} THEN ~calc.y[1].ok
       ELSE \E b \in cand :
              /\ \A j \in cand :
                    \/ rango(giac[b]) > rango(giac[j])
                    \/ /\ rango(giac[b]) = rango(giac[j])
                       /\ giac[b].riga_id >= giac[j].riga_id
              /\ calc.y[1].ok = (giac[b].Lotto # <<>>)
              /\ calc.y[1].lotto = giac[b].Lotto

\* the later start date, written DD/MM/YYYY on the upper row, has been chosen
\* over an ISO date on the row below it
C13_Witness ==
  /\ calc.y # <<>>
  /\ Len(calc.x) = 3
  /\ calc.x[2].Prodotto = N_yo /\ calc.x[2].Data_Inizio = Date("dmy", 12)
  /\ calc.x[3].Prodotto = N_Yo /\ calc.x[3].Data_Inizio = Date("iso", 10)
  /\ calc.y[1].ok /\ calc.y[1].lotto = calc.x[2].Lotto

\* item k of the batch names a product of the catalog the batch read
risolvibile(me, k) ==
  /\ strip(me.req.items[k].nome) # <<>>
  /\ by_name(me.ret.anagrafica, strip(me.req.items[k].nome)) # 0

\* item k is an external product of the catalog with no lot supplied
esterna_senza_lotto(me, k) ==
  /\ risolvibile(me, k)
  /\ LET nome == strip(me.req.items[k].nome)
         p == me.ret.anagrafica[by_name(me.ret.anagrafica, nome)]
     IN /\ canon_categoria(p.CATEGORIA) = S_esterno
        /\ strip(me.req.items[k].lotto) = <<>>

\* item k is such a product and no stock row of it carries a lot
senza_lotto(me, k) ==
  /\ esterna_senza_lotto(me, k)
  /\ LET nome == strip(me.req.items[k].nome)
     IN \A i \in 1..Len(me.ret.giacenze) :
          str_lower(strip(me.ret.giacenze[i].Prodotto)) = str_lower(nome)
            => strip(me.ret.giacenze[i].Lotto) = <<>>

\* the write calls the thread issued for item k, in order
chiamate_voce(me, k) == SelectSeq(me.log, LAMBDA e : e.item = k)

\* C14: a batch print that lists an external product with no lot supplied
\* and none resolvable in stock fails with MissingLot naming that product,
\* having issued no cell update and no row append for any item, wherever the
\* item stands in the list.
C14_LineaSenzaScritture ==
  \A t \in Threads :
    LET me == th[t]
    IN (/\ me.pc = "done" /\ me.req.op = "stampa_linea_totale"
        /\ me.resp \notin {"invalid", "store_unavailable"}
        /\ \E k \in 1..Len(me.req.items) : senza_lotto(me, k))
       => /\ me.resp = "missing_lot"
          /\ \E k \in 1..Len(me.req.items) :
               senza_lotto(me, k) /\ me.req.nome = strip(me.req.items[k].nome)
          /\ me.log = <<>>

C16_MaiNegativa ==
  /\ \A i \in 1..Len(ws) : ws[i].Qta.k = "num" => ws[i].Qta.v >= 0
  /\ \A t \in Threads :
       /\ \A e \in 1..Len(th[t].log) : th[t].log[e].val >= 0
       /\ (th[t].req.op = "rimuovi_quantita" /\ th[t].log # <<>>
           /\ th[t].req.qta >= th[t].current)
          => th[t].log[1].val = 0

\* a removal by row of more than the row held has set the row to 0
C16_Witness ==
  \E t \in Threads :
    /\ th[t].pc = "done" /\ th[t].req.op = "rimuovi_quantita"
    /\ th[t].resp = "success"
    /\ th[t].current > 0 /\ th[t].req.qta > th[t].current
    /\ ws[th[t].req.riga_id].Qta = Num(0)

\* C17: a mutating request whose forced read came back without a store
\* handle answers store-unavailable and issues no update, append or delete.
C17_SenzaHandle ==
  \A t \in Threads :
    LET me == th[t]
    IN (/\ me.req.op \in Mutanti
        /\ me.pc \notin {"idle", "check", "fetch", "store", "except", "resolve"}
        /\ me.nfetch >= 1 /\ me.ret.sheet_ref = None)
       => /\ me.pc = "done" /\ me.resp = "store_unavailable"
          /\ me.log = <<>> /\ me.nwr = 0

\* a mutating request has been refused because its read found no store
C17_Witness ==
  \E t \in Threads :
    /\ th[t].pc = "done" /\ th[t].req.op \in Mutanti
    /\ th[t].failed /\ th[t].ret.sheet_ref = None
    /\ th[t].resp = "store_unavailable" /\ ws = ws0

\* the thread's handler is past its write step
scritto(me) ==
  /\ me.req.op \in Singoli
  /\ me.pc \in {"inval", "respond", "done"}
  /\ me.nwr >= 1

\* C18: each line item that reaches the write step, in the single-item path
\* and in the batch path, has exactly one write call issued for it: one cell
\* update or one row append.
C18_UnaChiamataOriginale ==
  \A t \in Threads :
    LET me == th[t]
    IN /\ scritto(me) => Len(me.log) = 1
       /\ me.req.op = "stampa_linea_totale"
          => \A k \in 1..Len(me.req.items) :
               (k < me.i /\ chiamate_voce(me, k) # <<>>)
                 => Len(chiamate_voce(me, k)) = 1

\* C18 as amended: in the single-item path one write call is issued, a cell
\* update or a row append; in the batch path an item gets either one row
\* append or, when its key exists, the update of the quantity cell followed,
\* if that returned, by the update of the expiry cell of the same row; no
\* item gets both an update and an append.
C18_ChiamatePerVoce ==
  \A t \in Threads :
    LET me == th[t]
    IN /\ scritto(me)
          => /\ Len(me.log) = 1
             /\ me.log[1].call \in {"update_cell", "append_row"}
             /\ me.log[1].call = "update_cell" => me.log[1].col = 2
       /\ me.req.op = "stampa_linea_totale"
          => \A k \in 1..Len(me.req.items) :
               LET c == chiamate_voce(me, k)
               IN (k < me.i /\ c # <<>>)
                  => \/ Len(c) = 1 /\ c[1].call = "append_row"
                     \/ /\ Len(c) = 1 /\ c[1].call = "update_cell"
                        /\ c[1].col = 2 /\ ~c[1].ok
                     \/ /\ Len(c) = 2 /\ c[1].call = "update_cell"
                        /\ c[1].col = 2 /\ c[1].ok
                        /\ c[2].call = "update_cell" /\ c[2].col = 6
                        /\ c[2].riga = c[1].riga

\* a batch has updated the quantity and then the expiry of an existing row,
\* and appended a row for another item
C18_Witness ==
  \E t \in Threads :
    LET me == th[t]
    IN /\ me.pc = "done" /\ me.req.op = "stampa_linea_totale"
       /\ \E k \in 1..Len(me.req.items) :
            /\ Len(chiamate_voce(me, k)) = 2
            /\ chiamate_voce(me, k)[2].ok
       /\ \E k \in 1..Len(me.req.items) :
            /\ Len(chiamate_voce(me, k)) = 1
            /\ chiamate_voce(me, k)[1].call = "append_row"

\* the thread's last write call was a row append that returned, and the
\* handler has not gone on to another item since
ha_appeso(me) ==
  /\ me.log # <<>>
  /\ me.log[Len(me.log)].call = "append_row" /\ me.log[Len(me.log)].ok
  /\ \/ scritto(me)
     \/ /\ me.req.op = "stampa_linea_totale"
        /\ me.pc \in {"item", "inval", "respond", "done"}
        /\ me.log[Len(me.log)].item = me.i - 1

\* the row that append added: the one below the sheet as the call found it
riga_appesa(me) == ws[me.log[Len(me.log)].len + 1]

\* the item the append served: its trimmed name and its quantity as requested
voce_appesa(me) ==
  IF me.req.op = "stampa_linea_totale"
    THEN [nome |-> strip(me.req.items[me.log[Len(me.log)].item].nome),
          qta |-> me.req.items[me.log[Len(me.log)].item].qta]
    ELSE [nome |-> me.req.nome, qta |-> me.req.qta]

\* the shelf life of the item's product in days: <<n>>, or <<>> when the
\* product is unknown or none of its shelf-life fields holds a number
giorni_conservazione(me) ==
  LET ix == IF me.req.op = "stampa_linea_totale"
              THEN by_name(me.ret.anagrafica, voce_appesa(me).nome)
              ELSE trova_prodotto(me.ret.anagrafica, voce_appesa(me).nome)
  IN IF ix = 0 THEN <<>>
     ELSE IF me.ret.anagrafica[ix].GIORNI_SCADENZA.k = "num"
       THEN <<me.ret.anagrafica[ix].GIORNI_SCADENZA.v>>
     ELSE IF me.ret.anagrafica[ix].GIORNI_CONSERVAZIONE.k = "num"
       THEN <<me.ret.anagrafica[ix].GIORNI_CONSERVAZIONE.v>>
     ELSE <<>>

\* C19: a row appended by single print, add stock or batch print carries the
\* request's product name, the requested quantity, the default packaging
\* tag, the resolved lot, today as start date, and as expiry today plus the
\* product's shelf life, or "N/D" when the shelf life is absent or does not
\* parse.
C19_RigaNuovaOriginale ==
  \A t \in Threads :
    LET me == th[t]
    IN ha_appeso(me)
       => /\ riga_appesa(me).Prodotto = voce_appesa(me).nome
          /\ riga_appesa(me).Qta = Num(voce_appesa(me).qta)
          /\ riga_appesa(me).Pack = "busta"
          /\ riga_appesa(me).Lotto = me.lotto
          /\ riga_appesa(me).Data_Inizio = Date("iso", Today)
          /\ IF giorni_conservazione(me) # <<>>
               THEN /\ riga_appesa(me).Scadenza.f \in {"iso", "dmy"}
                    /\ riga_appesa(me).Scadenza.d = Today + giorni_conservazione(me)[1]
               ELSE riga_appesa(me).Scadenza = DateND

\* C19 as amended: the appended row carries the request's product name, the
\* requested quantity brought into 1..500, the default packaging tag, the
\* resolved lot and today as start date; its expiry is, in single print and
\* add stock, today plus the product's shelf life, or today when the shelf
\* life is absent or does not parse, and in batch print always today.
C19_RigaNuova ==
  \A t \in Threads :
    LET me == th[t]
    IN ha_appeso(me)
       => /\ riga_appesa(me).Prodotto = voce_appesa(me).nome
          /\ riga_appesa(me).Qta =
               Num(IF voce_appesa(me).qta > 500 THEN 500
                   ELSE IF voce_appesa(me).qta < 1 THEN 1 ELSE voce_appesa(me).qta)
          /\ riga_appesa(me).Pack = "busta"
          /\ riga_appesa(me).Lotto = me.lotto
          /\ riga_appesa(me).Data_Inizio = Date("iso", Today)
          /\ riga_appesa(me).Scadenza =
               IF me.req.op \in Singoli /\ giorni_conservazione(me) # <<>>
                 THEN Date("iso", Today + giorni_conservazione(me)[1])
                 ELSE Date("iso", Today)

\* a single print of the external product "Yo" with lot "a1" and quantity 2
\* has appended the row with lot "LA1" and expiry ten days from today
C19_Witness ==
  \E t \in Threads :
    /\ th[t].pc = "done" /\ th[t].req.op = "stampa_singolo"
    /\ th[t].resp = "success" /\ ha_appeso(th[t])
    /\ riga_appesa(th[t]) = Riga(N_Yo, Num(2), "busta", L_LA1,
                                 Date("iso", Today + 10), Date("iso", Today))

\* C20: clear-all deletes one row per call from the last row down to row 2,
\* each call naming a row the sheet has when it is issued, and when it
\* answers success the sheet holds the header row only.
C20_SvuotaDalFondo ==
  \A t \in Threads :
    LET me == th[t]
    IN me.req.op = "cancella_tutto_magazzino"
       => /\ \A e \in 1..Len(me.log) :
               /\ me.log[e].call = "delete_rows"
               /\ me.log[e].riga >= 2 /\ me.log[e].riga <= me.log[e].len
               /\ e = 1 => me.log[e].riga = me.log[e].len
               /\ e > 1 => me.log[e].riga = me.log[e - 1].riga - 1
          /\ (me.pc = "done" /\ me.resp = "success") => ws = <<Header>>

\* clear-all has emptied a sheet of at least two stock rows
C20_Witness ==
  \E t \in Threads :
    /\ th[t].pc = "done" /\ th[t].req.op = "cancella_tutto_magazzino"
    /\ th[t].resp = "success"
    /\ Len(th[t].log) >= 2
    /\ \A e \in 1..Len(th[t].log) : th[t].log[e].ok
    /\ ws = <<Header>>

(* C21: every row of a fetched stock snapshot has a trimmed, non-empty name,
   a whole quantity above zero and the row id, 2 or more, at which the sheet
   held it when it was fetched; raw rows with an empty name or with a quantity
   that does not parse or is not above zero are left out. The snapshot the
   cache holds is the one a fetch built. *)
riga_pulita(g, w) ==
  /\ g.Prodotto # <<>> /\ g.Prodotto = strip(g.Prodotto)
  /\ g.Qta \in Int /\ g.Qta > 0
  /\ g.riga_id >= 2 /\ g.riga_id <= Len(w)
  /\ strip(w[g.riga_id].Prodotto) = g.Prodotto
  /\ w[g.riga_id].Qta = Num(g.Qta)

riga_sporca(r) ==
  strip(r.Prodotto) = <<>> \/ r.Qta.k # "num" \/ r.Qta.v <= 0

giacenze_del_foglio(giac, w) ==
  /\ \A k \in 1..Len(giac) : riga_pulita(giac[k], w)
  /\ \A j, k \in 1..Len(giac) : j < k => giac[j].riga_id < giac[k].riga_id
  /\ \A i \in 2..Len(w) :
       riga_sporca(w[i]) <=> ~(\E k \in 1..Len(giac) : giac[k].riga_id = i)

C21_GiacenzePulite ==
  /\ [](/\ \A k \in 1..Len(cache.snap.giacenze) :
             LET g == cache.snap.giacenze[k]
             IN /\ g.Prodotto # <<>> /\ g.Prodotto = strip(g.Prodotto)
                /\ g.Qta \in Int /\ g.Qta > 0 /\ g.riga_id >= 2
         /\ (cache.snap.tagG > 0 /\ cache.snap.ver = wver)
              => giacenze_del_foglio(cache.snap.giacenze, ws))
  /\ [][\A t \in Threads :
          /\ (th[t].pc = "fetch" /\ th'[t].pc = "store")
               => giacenze_del_foglio(th'[t].tmp.giacenze, ws)
          /\ (th[t].pc = "store" /\ th'[t].pc # "store")
               => cache'.snap.giacenze = th[t].tmp.giacenze]_vars

\* a fetch after a write has left out the row before the one it kept
C21_Witness ==
  /\ cache.snap.tagG > 0 /\ cache.snap.ver = wver /\ wver > 0
  /\ \E k \in 1..Len(cache.snap.giacenze) : cache.snap.giacenze[k].riga_id > k + 1
  /\ \E i \in 2..Len(ws) : riga_sporca(ws[i])

(* C22: a name of at most 16 characters is drawn as one line; a name of more
   than 16 characters whose first word is longer than 16 characters is drawn
   as two lines, the first 16 characters of the name and then the characters
   after them, 16 at most, so that no line is longer than 16 characters. *)
C22_NomeSuDueRighe ==
  calc.y # <<>> =>
    LET nome == calc.x
        righe == calc.y[1]
    IN /\ Len(nome) <= max_chars => righe = <<nome>>
       /\ (Len(nome) > max_chars /\ Len(split(nome)[1]) > max_chars) =>
            /\ Len(righe) = 2
            /\ righe[1] = primi(nome, max_chars)
            /\ righe[2] \in {fetta(nome, max_chars, max_chars * 2),
                              strip(fetta(nome, max_chars, max_chars * 2))}
            /\ \A k \in 1..Len(righe) : Len(righe[k]) <= max_chars

(* C23: two add or print requests that both update the same existing row,
   with quantities q1 and q2, leave the row at its old quantity + q1 + q2,
   however their reads and writes interleave. *)
aggiorna_riga(me, r) ==
  /\ me.pc = "done" /\ me.req.op \in Singoli /\ me.resp = "success"
  /\ Len(me.log) = 1
  /\ me.log[1].call = "update_cell" /\ me.log[1].riga = r /\ me.log[1].ok

C23_NessunIncrementoPerso ==
  \A t, u \in Threads : \A r \in 2..Len(ws0) :
    (t # u /\ aggiorna_riga(th[t], r) /\ aggiorna_riga(th[u], r)) =>
      ws[r].Qta = Num(ws0[r].Qta.v + th[t].req.qta + th[u].req.qta)

(* C24: every quantity update of an add, print or remove-by-product request
   is written to the row that holds the request's product (and, for add and
   print, its lot) in the sheet as it is when the update is made, also when
   another request has deleted a row since the snapshot was read. *)
C24_ScritturaSullaRiga ==
  [][\A t \in Threads :
       LET me == th'[t]
           e == me.log[Len(me.log)]
       IN (/\ Len(me.log) = Len(th[t].log) + 1
           /\ me.req.op \in Singoli \cup {"cancella_prodotto_per_tipo"}
           /\ e.call = "update_cell" /\ e.ok)
          => /\ e.riga <= Len(ws)
             /\ str_lower(strip(ws[e.riga].Prodotto)) = str_lower(me.req.nome)
             /\ me.req.op \in Singoli => chiave(ws[e.riga]) = chiave_richiesta(me)]_vars

(* C25: no handler updates or deletes row 1, the header: every update_cell
   and delete_rows call names a row of 2 or more and the header stays as it
   was; a request that names a row below 2 issues no call and leaves the
   sheet as it is. *)
PerRiga == {"rimuovi_quantita", "elimina_prodotto"}

C25_IntestazioneIntatta ==
  /\ [](/\ Len(ws) >= 1 /\ ws[1] = ws0[1]
         /\ \A t \in Threads :
              /\ \A e \in 1..Len(th[t].log) :
                   th[t].log[e].call \in {"update_cell", "delete_rows"}
                     => th[t].log[e].riga >= 2
              /\ (th[t].req.op \in PerRiga /\ th[t].req.riga_id < 2)
                   => th[t].log = <<>> /\ th[t].nwr = 0)
  /\ [][\A t \in Threads :
          (th'[t] # th[t] /\ th'[t].req.op \in PerRiga /\ th'[t].req.riga_id < 2)
            => ws' = ws]_vars

\* a delete of row 1 has been answered and the sheet still has its rows
C25_Witness ==
  \E t \in Threads :
    /\ th[t].pc = "done" /\ th[t].req.op = "elimina_prodotto"
    /\ th[t].req.riga_id = 1 /\ th[t].resp = "success"
    /\ ws = ws0 /\ Len(ws) > 1

(* C26: a remove-by-product request for n that succeeds takes from the
   product's rows oldest start date first, lowers the product's total stock by
   min(n, the total the snapshot held), reports that number as removed and
   leaves the rows of every other product as they were. *)
RECURSIVE somma(_, _)
somma(giac, k) == IF k = 0 THEN 0 ELSE giac[k].Qta + somma(giac, k - 1)

totale(w, nome) ==
  LET righe == righe_prodotto(giacenze_pulite(w), nome)
  IN somma(righe, Len(righe))

minimo(a, b) == IF a < b THEN a ELSE b

rimosso_per_tipo(me) ==
  /\ me.pc = "done" /\ me.req.op = "cancella_prodotto_per_tipo"
  /\ me.resp = "success"

toccate(me) == {me.log[e].riga : e \in 1..Len(me.log)}

del_prodotto(w, nome) ==
  {i \in 2..Len(w) : str_lower(strip(w[i].Prodotto)) = str_lower(nome)}

con_data(w, i) == w[i].Data_Inizio.f \in {"iso", "dmy"}

C26_RimuoviDalPiuVecchio ==
  \A t \in Threads :
    rimosso_per_tipo(th[t]) =>
      LET me == th[t]
          tot == totale(ws0, me.req.nome)
          tolto == minimo(me.req.qta, tot)
      IN /\ totale(ws0, me.req.nome) - totale(ws, me.req.nome) = tolto
         /\ me.req.qta - me.da_rimuovere = tolto
         /\ Len(ws) = Len(ws0)
         /\ \A i \in 2..Len(ws0) :
              i \notin del_prodotto(ws0, me.req.nome) => ws[i] = ws0[i]
         /\ toccate(me) \subseteq del_prodotto(ws0, me.req.nome)
         /\ \A a, b \in 1..Len(me.log) :
              (a < b /\ con_data(ws0, me.log[a].riga) /\ con_data(ws0, me.log[b].riga))
                => ws0[me.log[a].riga].Data_Inizio.d <= ws0[me.log[b].riga].Data_Inizio.d
         /\ \A i \in toccate(me) :
              \A j \in del_prodotto(ws0, me.req.nome) \ toccate(me) :
                (con_data(ws0, i) /\ con_data(ws0, j))
                  => ws0[i].Data_Inizio.d <= ws0[j].Data_Inizio.d

====
